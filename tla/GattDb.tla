------------------------------- MODULE GattDb -------------------------------
(***************************************************************************)
(* The attribute database of the acm-rpi-app: how bluez5's gatt-db.c lays  *)
(* out services, characteristics and descriptors over handles, which       *)
(* attributes a search finds, how many of them fit into one answer of      *)
(* gatt-server.c, and the three services the program builds.  A database   *)
(* is a value here; GattServer gives it to a phone.                        *)
(***************************************************************************)
EXTENDS Sequences, FiniteSetsExt

LastHandle == 65535

(* A value is known by its length only, and an attribute by where a read   *)
(* or a write of it goes: "db" is the database, the others are callbacks.  *)
NewAttribute(type, uuid, len) ==
  [type |-> type, uuid |-> uuid, len |-> len, perm |-> {}, at |-> "db"]

-----------------------------------------------------------------------------
(* Building.  A service takes a range of handles, its attributes the first *)
(* of them; what does not fit is refused.                                  *)

EmptyDb == [next |-> 1, services |-> <<>>, attribute |-> <<>>]

AddService(db, uuid, slots) ==
  [next |-> db.next + slots,
   services |-> Append(db.services, [start |-> db.next, slots |-> slots, used |-> 1]),
   attribute |-> [h \in DOMAIN db.attribute \cup {db.next} |->
                    IF h = db.next THEN NewAttribute("service", uuid, 2)
                    ELSE db.attribute[h]]]

(* The attributes go to the service added last, as in this program.        *)
Insert(db, attributes) ==
  LET n == Len(db.services)
      s == db.services[n]
      first == s.start + s.used
      new == first .. first + Len(attributes) - 1
  IN  IF s.used + Len(attributes) > s.slots
      THEN db
      ELSE [next |-> db.next,
            services |-> [db.services EXCEPT ![n].used = @ + Len(attributes)],
            attribute |-> [h \in DOMAIN db.attribute \cup new |->
                             IF h \in new THEN attributes[h - first + 1]
                             ELSE db.attribute[h]]]

AddCharacteristic(db, uuid, len, perm, at) ==
  Insert(db, <<NewAttribute("characteristic", uuid, 5),
               [NewAttribute(uuid, uuid, len) EXCEPT !.perm = perm, !.at = at]>>)

AddDescriptor(db, uuid, len, perm, at) ==
  Insert(db, <<[NewAttribute(uuid, uuid, len) EXCEPT !.perm = perm, !.at = at]>>)

-----------------------------------------------------------------------------
(* Searching.  All services of this program are active, and all uuids have *)
(* 16 bits.                                                                *)

EndHandle(s) == s.start + s.slots - 1

Handles(db) == DOMAIN db.attribute

Owner(db, h) ==
  CHOOSE i \in 1 .. Len(db.services) :
    h >= db.services[i].start /\ h <= EndHandle(db.services[i])

InRange(db, start, end) == {h \in Handles(db) : h >= start /\ h <= end}

OfType(db, type) == {h \in Handles(db) : db.attribute[h].type = type}

ReadByGroupType(db, start, end) == InRange(db, start, end) \cap OfType(db, "service")

ReadByType(db, start, end, type) == InRange(db, start, end) \cap OfType(db, type)

FindByTypeValue(db, start, end, uuid) ==
  {h \in ReadByGroupType(db, start, end) : db.attribute[h].uuid = uuid}

(* Mutant: the first handle of the range is left out.                      *)
FindInformationAfterStart(db, start, end) == InRange(db, start + 1, end)

FindInformation(db, start, end) == InRange(db, start, end)

(* What building leaves: services in ranges of handles that do not overlap *)
(* and go up, each attribute inside the range of a service, and the one    *)
(* that declares a service where its range starts.                         *)
WellFormed(db) ==
  LET Service == 1 .. Len(db.services)
      Start(i) == db.services[i].start
      End(i) == EndHandle(db.services[i])
  IN  /\ db.services \in Seq([start : Nat \ {0}, slots : Nat \ {0}, used : Nat])
      /\ \A i \in Service : End(i) <= LastHandle
      /\ \A i, j \in Service : i < j => End(i) < Start(j)
      /\ Handles(db) \subseteq Nat
      /\ \A h \in Handles(db) : \E i \in Service : h >= Start(i) /\ h <= End(i)
      /\ OfType(db, "service") = {Start(i) : i \in Service}

-----------------------------------------------------------------------------
(* Encoding.  An answer takes found handles in ascending order, as long as *)
(* their values have the length of the first one and they fit into an MTU, *)
(* with an opcode and a length before them and extra bytes with each; if   *)
(* nothing was found there are none.                                       *)

Lowest(found, n) == {h \in found : Cardinality({g \in found : g < h}) < n}

Fitting(db, found, extra, mtu) ==
  LET len == db.attribute[Min(found)].len
      SameLength(h) == \A g \in found : g <= h => db.attribute[g].len = len
  IN  {h \in Lowest(found, (mtu - 2) \div (len + extra)) : SameLength(h)}

(* encode_read_by_grp_type_rsp                                             *)
GroupEntries(db, found, mtu) ==
  {[handle |-> h, end |-> EndHandle(db.services[Owner(db, h)])] :
     h \in Fitting(db, found, 4, mtu)}

(* process_read_by_type                                                    *)
TypeEntries(db, found, mtu) == {[handle |-> h] : h \in Fitting(db, found, 2, mtu)}

(* encode_find_info_rsp: two bytes of handle, two bytes of uuid.           *)
InfoEntries(db, found, mtu) ==
  {[handle |-> h] : h \in Lowest(found, (mtu - 2) \div 4)}

-----------------------------------------------------------------------------
(* The database of the program.                                            *)

PopulateGap(db) ==
  LET empty == AddService(db, "GAP", 6)
      name == AddCharacteristic(empty, "DeviceName", 11, {"read", "write"}, "name")
      props == AddDescriptor(name, "ExtendedProperties", 2, {"read"}, "props")
  IN  AddCharacteristic(props, "Appearance", 2, {"read"}, "db")

PopulateGatt(db) ==
  LET empty == AddService(db, "GATT", 4)
      changed == AddCharacteristic(empty, "ServiceChanged", 0, {"read"}, "changed")
  IN  AddDescriptor(changed, "ClientConfiguration", 2, {"read", "write"}, "ccc")

(* The descriptor that turns notifications on may only be read.            *)
AddAcmService(db) ==
  LET empty == AddService(db, "AcmService", 10)
      state == AddCharacteristic(empty, "AcmCharState", 0, {"write"}, "state")
      feedback == AddCharacteristic(state, "AcmCharFeedb", 0, {"read"}, "db")
  IN  AddDescriptor(feedback, "ClientConfiguration", 0, {"read"}, "db")

AcmDb == AddAcmService(PopulateGatt(PopulateGap(EmptyDb)))

=============================================================================
