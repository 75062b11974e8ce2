----------------------------- MODULE GattServer -----------------------------
(***************************************************************************)
(* The Bluetooth side of the acm-rpi-app while one phone is connected:     *)
(* att.c reads and writes the socket, gatt-server.c answers requests from  *)
(* the database, gatt-db.c waits for the result of a write, GattServer.cpp *)
(* and AcmApplication.cpp take what is written.  Each action is one        *)
(* callback of the main loop, which picks ready events in any order.       *)
(*                                                                         *)
(* Nobody reports the result of a write of the state characteristic, so    *)
(* each one occupies the server until a timer of 50 ms gives up waiting;   *)
(* a write command that comes in the meantime is dropped without a word.   *)
(* Time is counted in ticks, to say when that can happen.                  *)
(***************************************************************************)
EXTENDS Integers, GattDb

CONSTANTS
  Db,           \* the attribute database
  Period,       \* ticks between two runs of the phone's sending task
  Timeout,      \* ticks a write may take to report its result
  MaxDelay,     \* ticks a message or an expired timer may wait for its callback
  StateOps,     \* how the phone writes the state: write commands or requests
  ClientMtus,   \* the MTUs a phone may propose
  MaxWrites,    \* bound on the bytes the phone writes
  MaxQueue,     \* bound on the messages waiting for the socket
  MaxPrep,      \* length of the queue of prepared writes
  MaxName       \* longest device name that is told apart

ASSUME GattServerAssumption ==
  /\ Period \in Nat \ {0} /\ Timeout \in Nat \ {0} /\ MaxDelay \in Nat
  /\ StateOps \subseteq {"WriteCmd", "WriteReq"}
  /\ ClientMtus \subseteq Nat
  /\ MaxWrites \in Nat /\ MaxQueue \in Nat \ {0}
  /\ MaxPrep \in Nat /\ MaxName \in Nat /\ MaxName >= 11

VARIABLES
  phase, cursor, service, found,  \* the phone: its search of the database
  outstanding,    \* the kind of request it waits to be answered
  session,        \* it prepared a write since its last execution was answered
  written, since, \* number of its newest byte; ticks since it was written
  link,           \* "up", "hungup" by the phone, "shutdown" by the server
  toServer, toPhone,  \* messages on the way
  io, inReq, writeQueue, writerActive, mtu,  \* bt_att
  pendingWrite, prepQueue,  \* bt_gatt_server
  timer, age,     \* the pending write's timer: "off", "armed", "expired"
  applied,        \* number of the byte bleOnDataReceived took last
  nameLen,        \* length of GattServer's m_device_name
  quit, running,  \* the main loop
  lag             \* ticks something has been waiting for its callback

search == <<phase, cursor, service, found>>
phone == <<search, outstanding, session, written, since>>
att == <<io, inReq, writeQueue, writerActive, mtu>>
values == <<applied, nameLen>>
server == <<pendingWrite, prepQueue, timer, age, values>>
loop == <<quit, running>>
vars == <<phone, link, toServer, toPhone, att, server, loop, lag>>

None == "none"

DefaultLeMtu == 23

HandleOf(uuid) == CHOOSE h \in Handles(Db) : Db.attribute[h].type = uuid

StateHandle == HandleOf("AcmCharState")
FeedbackHandle == HandleOf("AcmCharFeedb")
NameHandle == HandleOf("DeviceName")
ChangedConfig == HandleOf("ServiceChanged") + 1
FeedbackConfig == FeedbackHandle + 1

(* The state can be written, and is not one of the other values.           *)
ASSUME StateHandleAssumption ==
  /\ StateHandle \in Handles(Db)
  /\ Db.attribute[StateHandle].perm = {"write"}
  /\ StateHandle \notin {NameHandle, ChangedConfig, FeedbackConfig}

(* A phone can find everything: declarations fit into the smallest answer, *)
(* a service with its range of handles, a characteristic with its handle.  *)
ASSUME DbAssumption ==
  /\ WellFormed(Db)
  /\ \A h \in OfType(Db, "service") :
       Db.attribute[h].len \in 0 .. DefaultLeMtu - 6
  /\ \A h \in OfType(Db, "characteristic") :
       /\ Db.attribute[h].len \in 0 .. DefaultLeMtu - 4
       /\ Db.attribute[h].perm = {} \/ "read" \in Db.attribute[h].perm

-----------------------------------------------------------------------------
(* What a phone that knows the database asks.  The remote turns on the     *)
(* notifications (FeedbackConfig); nRF Connect reads and writes the rest.  *)
(* Neither prepares a write of the state, whose execution would wait for   *)
(* the 50 ms timer as a direct one does, and neither sends a malformed     *)
(* request.                                                                *)

Request ==
  {[op |-> "ReadBlob", handle |-> h, offset |-> MaxName] : h \in {NameHandle, StateHandle}}
  \cup {[op |-> "ReadMultiple", handles |-> <<NameHandle, h>>] :
           h \in {FeedbackHandle, StateHandle}}
  \cup {[op |-> "FindByTypeValue", start |-> 1, end |-> LastHandle, uuid |-> u] :
           u \in {"AcmService", "unknown"}}
  \cup {[op |-> "WriteReq", handle |-> h, offset |-> 0, len |-> 2] :
           h \in {NameHandle, ChangedConfig, FeedbackConfig}}
  \cup {[op |-> "PrepWrite", handle |-> NameHandle, offset |-> o, len |-> 1] :
           o \in {MaxName - 1, MaxName}}
  \cup {[op |-> "PrepWrite", handle |-> ChangedConfig, offset |-> 0, len |-> 1]}
  \cup {[op |-> "ExecWrite", write |-> w] : w \in BOOLEAN}
  \cup {[op |-> "Mtu", client |-> m] : m \in ClientMtus}
  \cup {[op |-> "Unsupported"]}

Rsp(r, entries) == [re |-> r.op, ok |-> TRUE, entries |-> entries]
Err(r) == [re |-> r.op, ok |-> FALSE, entries |-> {}]
Notification == [re |-> None, ok |-> TRUE, entries |-> {}]

Init ==
  /\ phase = "services" /\ cursor = 1 /\ service = 0
  /\ found = [p \in {"services", "characteristics", "descriptors"} |-> {}]
  /\ outstanding = None /\ session = FALSE /\ written = 0 /\ since = Period
  /\ link = "up" /\ toServer = <<>> /\ toPhone = <<>>
  /\ io = TRUE /\ inReq = FALSE /\ writeQueue = <<>> /\ writerActive = FALSE
  /\ mtu = DefaultLeMtu
  /\ pendingWrite = None /\ prepQueue = <<>> /\ timer = "off" /\ age = 0
  /\ applied = 0 /\ nameLen = 11
  /\ quit = FALSE /\ running = TRUE
  /\ lag = 0

(* How long something has been waiting for its callback.                   *)
Waits ==
  lag' = IF toServer' # <<>> \/ timer' = "expired" THEN lag ELSE 0

-----------------------------------------------------------------------------
(* The phone.                                                              *)

Send(pdu) == toServer' = Append(toServer, pdu)

Ask(r) ==
  /\ link = "up" /\ outstanding = None
  /\ outstanding' = r.op
  /\ Send(r)
  /\ session' = (session \/ r.op = "PrepWrite")
  /\ Waits
  /\ UNCHANGED <<search, written, since, link, toPhone, att, server, loop>>

EndOfRange ==
  IF phase = "services"
  THEN LastHandle
  ELSE (CHOOSE s \in found["services"] : s.handle = service).end

Explore ==
  /\ phase # "ready"
  /\ Ask([op |-> CASE phase = "services" -> "ReadByGroupType"
                   [] phase = "characteristics" -> "ReadByType"
                   [] phase = "descriptors" -> "FindInformation",
          start |-> cursor, end |-> EndOfRange])

(* The sending task, which runs once a period and writes what has changed; *)
(* a byte it takes for sent is not sent again.                             *)
TaskWrites ==
  /\ link = "up" /\ phase = "ready" /\ since = Period /\ written < MaxWrites
  /\ since' = 0
  /\ written' = written + 1
  /\ LET byte(op) == [op |-> op, handle |-> StateHandle, offset |-> 0, len |-> 1,
                      number |-> written + 1]
     IN  \/ /\ "WriteCmd" \in StateOps
            /\ Send(byte("WriteCmd"))
            /\ UNCHANGED outstanding
         \/ /\ "WriteReq" \in StateOps
            /\ outstanding = None
            /\ outstanding' = "WriteReq"
            /\ Send(byte("WriteReq"))
  /\ Waits
  /\ UNCHANGED <<search, session, link, toPhone, att, server, loop>>

(* A range is done when it is answered with an error or up to its end; the *)
(* second and the third phase go through the services.                     *)
NextPhase ==
  [services |-> "characteristics", characteristics |-> "descriptors",
   descriptors |-> "ready"]

NextRange ==
  LET starts == {s.handle : s \in found'["services"]}
      later == {h \in starts : h > service}
  IN  \/ /\ phase # "services" /\ later # {}
         /\ service' = Min(later)
         /\ UNCHANGED phase
         /\ cursor' = service'
      \/ /\ phase = "services" \/ later = {}
         /\ service' = IF starts = {} THEN 0 ELSE Min(starts)
         /\ phase' = IF starts = {} THEN "ready" ELSE NextPhase[phase]
         /\ cursor' = service'

Learn(rsp) ==
  LET upTo == Max({IF phase = "services" THEN e.end ELSE e.handle : e \in rsp.entries})
  IN  /\ found' = [found EXCEPT ![phase] = @ \cup rsp.entries]
      /\ IF rsp.ok /\ upTo < EndOfRange
         THEN cursor' = upTo + 1 /\ UNCHANGED <<phase, service>>
         ELSE NextRange

Receive ==
  /\ link = "up" /\ toPhone # <<>>
  /\ toPhone' = Tail(toPhone)
  /\ LET rsp == Head(toPhone)
     IN  \/ rsp = Notification /\ UNCHANGED <<search, outstanding, session>>
         \/ /\ rsp # Notification
            /\ outstanding' = None
            /\ session' = (session /\ rsp.re # "ExecWrite")
            /\ IF phase = "ready" THEN UNCHANGED search ELSE Learn(rsp)
  /\ UNCHANGED <<written, since, link, toServer, att, server, loop, lag>>

HangUp ==
  /\ link = "up"
  /\ link' = "hungup"
  /\ toPhone' = <<>>
  /\ UNCHANGED <<phone, toServer, att, server, loop, lag>>

-----------------------------------------------------------------------------
(* Sending.  What is posted waits for the socket to take it; a response    *)
(* ends the request, and one that cannot be sent any more does not.        *)

(* bt_att_send and wakeup_writer                                           *)
Post(pdus) ==
  /\ writeQueue' = IF io THEN writeQueue \o pdus ELSE writeQueue
  /\ writerActive' = (writerActive \/ (io /\ pdus # <<>>))

(* Mutant: only a positive response ends the request.                      *)
CanWriteDataKeepsRefused ==
  /\ running /\ io /\ writerActive
  /\ IF writeQueue = <<>>
     THEN writerActive' = FALSE /\ UNCHANGED <<inReq, writeQueue, toPhone>>
     ELSE /\ writeQueue' = Tail(writeQueue)
          /\ toPhone' = IF link = "up" THEN Append(toPhone, Head(writeQueue)) ELSE toPhone
          /\ inReq' = (inReq /\ (Head(writeQueue) = Notification \/ link # "up"
                                 \/ ~Head(writeQueue).ok))
          /\ UNCHANGED writerActive
  /\ UNCHANGED <<phone, link, toServer, io, mtu, server, loop, lag>>

CanWriteData ==
  /\ running /\ io /\ writerActive
  /\ IF writeQueue = <<>>
     THEN writerActive' = FALSE /\ UNCHANGED <<inReq, writeQueue, toPhone>>
     ELSE /\ writeQueue' = Tail(writeQueue)
          /\ toPhone' = IF link = "up" THEN Append(toPhone, Head(writeQueue)) ELSE toPhone
          /\ inReq' = (inReq /\ (Head(writeQueue) = Notification \/ link # "up"))
          /\ UNCHANGED writerActive
  /\ UNCHANGED <<phone, link, toServer, io, mtu, server, loop, lag>>

(* A frame from the car is reported to the phone, at any time.             *)
SendNotification ==
  /\ running /\ Len(writeQueue) + Len(toPhone) < MaxQueue
  /\ Post(<<Notification>>)
  /\ UNCHANGED <<phone, link, toServer, toPhone, io, inReq, mtu, server, loop, lag>>

-----------------------------------------------------------------------------
(* Reading.                                                                *)

Permits(handle, access) ==
  /\ handle \in Handles(Db)
  /\ LET perm == Db.attribute[handle].perm IN perm = {} \/ access \in perm

(* Nothing found is an error.                                              *)
Found(r, entries) == IF entries = {} THEN Err(r) ELSE Rsp(r, entries)

(* A device name is read through its callback; offsets past its end fail.  *)
Readable(handle, offset) ==
  /\ Permits(handle, "read")
  /\ offset <= IF handle = NameHandle THEN nameLen ELSE Db.attribute[handle].len

Lookup(r) ==
  CASE r.op = "ReadByGroupType" ->
         Found(r, GroupEntries(Db, ReadByGroupType(Db, r.start, r.end), mtu))
    [] r.op = "ReadByType" ->
         LET list == ReadByType(Db, r.start, r.end, "characteristic")
         IN  IF \A h \in list : Permits(h, "read")
             THEN Found(r, TypeEntries(Db, list, mtu))
             ELSE Err(r)
    [] r.op = "FindInformation" ->
         Found(r, InfoEntries(Db, FindInformation(Db, r.start, r.end), mtu))
    [] r.op = "FindByTypeValue" ->
         Found(r, FindByTypeValue(Db, r.start, r.end, r.uuid))
    [] r.op = "ReadBlob" ->
         IF Readable(r.handle, r.offset) THEN Rsp(r, {}) ELSE Err(r)
    [] r.op = "ReadMultiple" ->
         IF \A i \in 1 .. Len(r.handles) : Readable(r.handles[i], 0)
         THEN Rsp(r, {})
         ELSE Err(r)
    [] r.op = "Unsupported" -> Err(r)

-----------------------------------------------------------------------------
(* Writing.                                                                *)

(* The two values that report the result of a write themselves: the name   *)
(* grows with every write; the configuration, which nothing else reads,    *)
(* takes its two bytes at once.                                            *)
WriteValue(v, w) ==
  CASE w.handle = NameHandle ->
         IF w.offset > v.nameLen
         THEN [v EXCEPT !.ok = FALSE]
         ELSE [v EXCEPT !.nameLen =
                 IF @ + w.len < MaxName THEN @ + w.len ELSE MaxName]
    [] w.handle = ChangedConfig ->
         [v EXCEPT !.ok = w.len = 2 /\ w.offset = 0]

Value == [ok |-> TRUE, nameLen |-> nameLen]

Verdict(r, ok) == IF ok THEN Rsp(r, {}) ELSE Err(r)

Refused(r) == ~(Permits(r.handle, "write") /\ pendingWrite = None)

Refuse(r) ==
  /\ Refused(r)
  /\ Post(IF r.op = "WriteCmd" THEN <<>> ELSE <<Err(r)>>)
  /\ UNCHANGED <<pendingWrite, timer, age, values>>

(* Mutant: no timer is armed for the result.                               *)
WriteStateUntimed(r) ==
  /\ ~Refused(r) /\ r.handle = StateHandle
  /\ pendingWrite' = r.op /\ timer' = "off" /\ age' = 0
  /\ applied' = r.number
  /\ UNCHANGED <<writeQueue, writerActive, nameLen>>

(* bleOnDataReceived takes the byte and reports nothing: the write stays   *)
(* pending and a timer is armed for it.                                    *)
WriteState(r) ==
  /\ ~Refused(r) /\ r.handle = StateHandle
  /\ pendingWrite' = r.op /\ timer' = "armed" /\ age' = 0
  /\ applied' = r.number
  /\ UNCHANGED <<writeQueue, writerActive, nameLen>>

(* The other callbacks report their result before they return.             *)
WriteOther(r) ==
  /\ ~Refused(r) /\ r.handle # StateHandle
  /\ LET v == WriteValue(Value, r)
     IN  nameLen' = v.nameLen /\ Post(<<Verdict(r, v.ok)>>)
  /\ UNCHANGED <<pendingWrite, timer, age, applied>>

WriteCb(r) ==
  /\ Refuse(r) \/ WriteState(r) \/ WriteOther(r)
  /\ UNCHANGED <<mtu, prepQueue>>

(* What continues the entry prepared last is added to it.                  *)
Prepared(r) ==
  LET n == Len(prepQueue)
      new == [handle |-> r.handle, offset |-> r.offset, len |-> r.len]
  IN  IF n > 0 /\ prepQueue[n].handle = r.handle
               /\ r.offset = prepQueue[n].offset + prepQueue[n].len
      THEN [prepQueue EXCEPT ![n].len = @ + r.len]
      ELSE Append(prepQueue, new)

PrepWriteCb(r) ==
  LET ok == Len(prepQueue) < MaxPrep /\ Permits(r.handle, "write")
  IN  /\ prepQueue' = IF ok THEN Prepared(r) ELSE prepQueue
      /\ Post(<<Verdict(r, ok)>>)
      /\ UNCHANGED <<mtu, pendingWrite, timer, age, values>>

(* The values after the first i entries; an entry that fails ends it.      *)
Executed ==
  LET v[i \in 0 .. Len(prepQueue)] ==
        IF i = 0 THEN Value
        ELSE IF v[i - 1].ok THEN WriteValue(v[i - 1], prepQueue[i])
        ELSE v[i - 1]
  IN  v[Len(prepQueue)]

(* Only the device name carries the property of reliable writes.           *)
Reliable(w) == w.handle = NameHandle

(* Several entries are one session of reliable writes.                     *)
Unreliable ==
  Len(prepQueue) > 1 /\ \E i \in 1 .. Len(prepQueue) : ~Reliable(prepQueue[i])

(* Mutant: an execution that is refused leaves the entries in the queue.   *)
ExecWriteCbKeepsQueue(r) ==
  LET v == IF r.write /\ ~Unreliable THEN Executed ELSE Value
  IN  /\ prepQueue' = IF r.write /\ Unreliable THEN prepQueue ELSE <<>>
      /\ nameLen' = v.nameLen
      /\ Post(<<Verdict(r, v.ok /\ ~(r.write /\ Unreliable))>>)
      /\ UNCHANGED <<mtu, pendingWrite, timer, age, applied>>

ExecWriteCb(r) ==
  LET v == IF r.write /\ ~Unreliable THEN Executed ELSE Value
  IN  /\ prepQueue' = <<>>
      /\ nameLen' = v.nameLen
      /\ Post(<<Verdict(r, v.ok /\ ~(r.write /\ Unreliable))>>)
      /\ UNCHANGED <<mtu, pendingWrite, timer, age, applied>>

(* Mutant: what the phone proposes is taken.                               *)
ExchangeMtuCbTakes(r) ==
  /\ mtu' = IF r.client > DefaultLeMtu THEN r.client ELSE DefaultLeMtu
  /\ Post(<<Rsp(r, {})>>)
  /\ UNCHANGED server

(* The server's own MTU is the default one, so nothing larger comes of it. *)
ExchangeMtuCb(r) ==
  LET least == IF r.client < DefaultLeMtu THEN r.client ELSE DefaultLeMtu
  IN  /\ mtu' = IF least > DefaultLeMtu THEN least ELSE DefaultLeMtu
      /\ Post(<<Rsp(r, {})>>)
      /\ UNCHANGED server

-----------------------------------------------------------------------------
(* The callbacks of the main loop.                                         *)

Handle(r) ==
  \/ r.op \in {"WriteReq", "WriteCmd"} /\ WriteCb(r)
  \/ r.op = "PrepWrite" /\ PrepWriteCb(r)
  \/ r.op = "ExecWrite" /\ ExecWriteCb(r)
  \/ r.op = "Mtu" /\ ExchangeMtuCb(r)
  \/ /\ r.op \notin {"WriteReq", "WriteCmd", "PrepWrite", "ExecWrite", "Mtu"}
     /\ Post(<<Lookup(r)>>)
     /\ UNCHANGED <<mtu, server>>

(* A second request before the answer to the first ends the connection.    *)
CanReadData ==
  /\ running /\ io /\ link # "shutdown" /\ toServer # <<>>
  /\ toServer' = Tail(toServer)
  /\ LET r == Head(toServer)
     IN  \/ /\ r.op # "WriteCmd" /\ inReq
            /\ link' = "shutdown"
            /\ UNCHANGED <<inReq, writeQueue, writerActive, mtu, server>>
         \/ /\ r.op # "WriteCmd" /\ ~inReq
            /\ inReq' = TRUE
            /\ Handle(r)
            /\ UNCHANGED link
         \/ /\ r.op = "WriteCmd"
            /\ Handle(r)
            /\ UNCHANGED <<inReq, link>>
  /\ Waits
  /\ UNCHANGED <<phone, toPhone, io, loop>>

TimerExpires ==
  /\ timer = "armed" /\ age = Timeout
  /\ timer' = "expired"
  /\ UNCHANGED <<phone, link, toServer, toPhone, att, pendingWrite, prepQueue, age, values,
                 loop, lag>>

(* Mutant: the write stays pending when its timer gives up.                *)
WriteTimeoutKeepsPending ==
  /\ running /\ timer = "expired"
  /\ timer' = "off" /\ age' = 0
  /\ Post(IF pendingWrite = "WriteReq" THEN <<Err([op |-> "WriteReq"])>> ELSE <<>>)
  /\ UNCHANGED toServer
  /\ Waits
  /\ UNCHANGED <<phone, link, toPhone, io, inReq, mtu, pendingWrite, prepQueue, values, loop>>

(* Mutant: the phone is not told that its request timed out.               *)
WriteTimeoutSilent ==
  /\ running /\ timer = "expired"
  /\ timer' = "off" /\ age' = 0
  /\ pendingWrite' = None
  /\ Post(<<>>)
  /\ UNCHANGED toServer
  /\ Waits
  /\ UNCHANGED <<phone, link, toPhone, io, inReq, mtu, prepQueue, values, loop>>

(* Mutant: a write command that timed out is answered, too.                *)
WriteTimeoutAnswersCommands ==
  /\ running /\ timer = "expired"
  /\ timer' = "off" /\ age' = 0
  /\ pendingWrite' = None
  /\ Post(<<Err([op |-> "WriteReq"])>>)
  /\ UNCHANGED toServer
  /\ Waits
  /\ UNCHANGED <<phone, link, toPhone, io, inReq, mtu, prepQueue, values, loop>>

(* write_timeout and write_complete_cb                                     *)
WriteTimeout ==
  /\ running /\ timer = "expired"
  /\ timer' = "off" /\ age' = 0
  /\ pendingWrite' = None
  /\ Post(IF pendingWrite = "WriteReq" THEN <<Err([op |-> "WriteReq"])>> ELSE <<>>)
  /\ UNCHANGED toServer
  /\ Waits
  /\ UNCHANGED <<phone, link, toPhone, io, inReq, mtu, prepQueue, values, loop>>

(* Mutant: the loop is not told to end.                                    *)
DisconnectCbStays ==
  /\ running /\ io /\ link # "up"
  /\ io' = FALSE
  /\ writeQueue' = <<>> /\ writerActive' = FALSE
  /\ UNCHANGED <<phone, link, toServer, toPhone, inReq, mtu, server, loop, lag>>

DisconnectCb ==
  /\ running /\ io /\ link # "up"
  /\ io' = FALSE
  /\ writeQueue' = <<>> /\ writerActive' = FALSE
  /\ quit' = TRUE
  /\ UNCHANGED <<phone, link, toServer, toPhone, inReq, mtu, server, running, lag>>

(* The loop ends between two batches of events.                            *)
Exit ==
  /\ running /\ quit
  /\ running' = FALSE
  /\ UNCHANGED <<phone, link, toServer, toPhone, att, server, quit, lag>>

(* Time passes, unless something has to be done before.                    *)
Tick ==
  /\ link = "up"
  /\ (toServer # <<>> \/ timer = "expired") => lag < MaxDelay
  /\ timer = "armed" => age < Timeout
  /\ lag' = IF toServer # <<>> \/ timer = "expired" THEN lag + 1 ELSE 0
  /\ age' = IF timer = "armed" THEN age + 1 ELSE age
  /\ since' = IF since < Period THEN since + 1 ELSE since
  /\ UNCHANGED <<search, outstanding, session, written, link, toServer, toPhone, att,
                 pendingWrite, prepQueue, timer, values, loop>>

ServerStep ==
  \/ CanReadData \/ CanWriteData \/ SendNotification
  \/ TimerExpires \/ WriteTimeout \/ DisconnectCb \/ Exit

PhoneStep ==
  \/ Explore \/ TaskWrites \/ Receive \/ HangUp
  \/ phase = "ready" /\ \E r \in Request : Ask(r)

Next == ServerStep \/ PhoneStep \/ Tick

(* The loop takes what is ready, the phone what has arrived, and a phone   *)
(* that connected looks for the services; time passes.                     *)
Fairness ==
  /\ WF_vars(CanReadData) /\ WF_vars(CanWriteData) /\ WF_vars(TimerExpires)
  /\ WF_vars(WriteTimeout) /\ WF_vars(DisconnectCb) /\ WF_vars(Exit)
  /\ WF_vars(Receive) /\ WF_vars(Explore) /\ SF_vars(Tick)

Spec == Init /\ [][Next]_vars /\ Fairness

-----------------------------------------------------------------------------
(* Properties.                                                             *)

(* The variables have their types, and the MTU stays the default one.      *)
TypeOK ==
  /\ phase \in {"services", "characteristics", "descriptors", "ready"}
  /\ session \in BOOLEAN /\ written \in 0 .. MaxWrites /\ since \in 0 .. Period
  /\ link \in {"up", "hungup", "shutdown"}
  /\ io \in BOOLEAN /\ inReq \in BOOLEAN /\ writerActive \in BOOLEAN
  /\ mtu = DefaultLeMtu
  /\ pendingWrite \in {None, "WriteCmd", "WriteReq"}
  /\ timer \in {"off", "armed", "expired"} /\ age \in 0 .. Timeout
  /\ applied \in 0 .. MaxWrites
  /\ quit \in BOOLEAN /\ running \in BOOLEAN
  /\ lag \in 0 .. MaxDelay

Asked == {i \in 1 .. Len(toServer) : toServer[i].op # "WriteCmd"}
Timed == pendingWrite = "WriteReq" /\ timer # "off"
Answers(s) == {i \in 1 .. Len(s) : s[i] # Notification}
Queued == Answers(writeQueue)
Delivered == Answers(toPhone)

InFlight ==
  {<<"asked", i>> : i \in Asked} \cup (IF Timed THEN {<<"timed", 0>>} ELSE {})
  \cup {<<"queued", i>> : i \in Queued} \cup {<<"delivered", i>> : i \in Delivered}

(* While the link is up, a request the phone waits for is in exactly one   *)
(* place: on its way, pending under a timer, answered in the queue, or     *)
(* answered on the way back; and nothing else is an answer.                *)
OneAnswer ==
  link = "up" =>
    IF outstanding = None THEN InFlight = {} ELSE \E p \in InFlight : InFlight = {p}

(* A phone that waits for its answers is never cut off (att.c shuts the    *)
(* socket when a request arrives while another one is served).             *)
NeverShutDown == link # "shutdown"

(* A phone whose last execution was answered finds no prepared write left  *)
(* over, whichever way the execution ended.                                *)
NoStalePrepare == link = "up" /\ prepQueue # <<>> => session

(* What a phone has found when its search ends is the database, every      *)
(* service and attribute once, though an answer holds only a few of them.  *)
DiscoveryIsExact ==
  phase = "ready" =>
    /\ found["services"] = {[handle |-> s.start, end |-> EndHandle(s)] :
                             s \in {Db.services[i] : i \in 1 .. Len(Db.services)}}
    /\ found["characteristics"] = {[handle |-> h] : h \in OfType(Db, "characteristic")}
    /\ found["descriptors"] = {[handle |-> h] : h \in Handles(Db)}

IsStateWrite(m) == m.op \in {"WriteCmd", "WriteReq"} /\ m.handle = StateHandle

(* Once the socket is empty the car is driven by the phone's newest byte:  *)
(* no write command is lost to the timer of the one before.                *)
NewestWriteInForce ==
  link = "up" /\ (\A i \in 1 .. Len(toServer) : ~IsStateWrite(toServer[i]))
    => applied = written

(* Every request is answered or the link is lost, the writes that nobody   *)
(* reports a result of included.                                           *)
EveryRequestAnswered == outstanding # None ~> (outstanding = None \/ link # "up")

(* The server takes writes again after each one, until it ends.            *)
WritePathRecovers == pendingWrite # None ~> (pendingWrite = None \/ ~running)

(* A lost link ends the program's loop.                                    *)
LinkLossEnds == link # "up" ~> ~running

=============================================================================
