---------------------------- MODULE MCGattServer ----------------------------
(***************************************************************************)
(* GattServer on a small instance: one phone that searches the database    *)
(* of the program and writes two bytes, 50 ms to a tick.                   *)
(***************************************************************************)
EXTENDS GattServer

MCClientMtus == {185}

(* The database as the phone should see it; AcmDb builds it as the program *)
(* does.                                                                   *)
At(type, uuid, len, perm, at) ==
  [type |-> type, uuid |-> uuid, len |-> len, perm |-> perm, at |-> at]

Service(uuid) == At("service", uuid, 2, {}, "db")
Characteristic(uuid) == At("characteristic", uuid, 5, {}, "db")
Holds(uuid, len, perm, at) == At(uuid, uuid, len, perm, at)

MCDb ==
  [next |-> 21,
   services |-> <<[start |-> 1, slots |-> 6, used |-> 6],
                  [start |-> 7, slots |-> 4, used |-> 4],
                  [start |-> 11, slots |-> 10, used |-> 6]>>,
   attribute |->
     <<Service("GAP"),
       Characteristic("DeviceName"), Holds("DeviceName", 11, {"read", "write"}, "name"),
       Holds("ExtendedProperties", 2, {"read"}, "props"),
       Characteristic("Appearance"), Holds("Appearance", 2, {"read"}, "db"),
       Service("GATT"),
       Characteristic("ServiceChanged"), Holds("ServiceChanged", 0, {"read"}, "changed"),
       Holds("ClientConfiguration", 2, {"read", "write"}, "ccc"),
       Service("AcmService"),
       Characteristic("AcmCharState"), Holds("AcmCharState", 0, {"write"}, "state"),
       Characteristic("AcmCharFeedb"), Holds("AcmCharFeedb", 0, {"read"}, "db"),
       Holds("ClientConfiguration", 0, {"read"}, "db")>>]

(* The two agree: no attribute was refused, and each has its handle.       *)
ASSUME MCDbAssumption == MCDb = AcmDb

=============================================================================
