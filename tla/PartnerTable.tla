---------------------------- MODULE PartnerTable ----------------------------
(***************************************************************************)
(* The partner information of a radio dongle: for each partner id what is  *)
(* known of a device, of which only its IPv6 address is kept here.  This   *)
(* is DeviceEmulation.handle_partner_information with the commands that    *)
(* lemonbeat._partner sends.                                               *)
(***************************************************************************)
EXTENDS Naturals, FiniteSets

CONSTANTS
  Addresses,   \* the IPv6 addresses of devices
  PartnerMax,  \* partner_information_count: the ids are 1..PartnerMax
  NoPartner,   \* nothing is stored for the id
  NoAddress    \* something is stored for the id, but no address

ASSUME PartnerMaxAssumption == PartnerMax \in Nat
ASSUME NoPartnerAssumption ==
  NoPartner \notin Addresses /\ NoAddress \notin Addresses /\ NoPartner # NoAddress

VARIABLE partner_information

Ids == 1..PartnerMax

Tables == [Ids -> Addresses \cup {NoPartner, NoAddress}]

Used(table) == {id \in Ids : table[id] # NoPartner}

\* free_count of the memory information.
FreeCount(table) == PartnerMax - Cardinality(Used(table))

\* Partners were registered before, each once and with its address.
TableInit ==
  /\ partner_information \in [Ids -> Addresses \cup {NoPartner}]
  /\ \A i, j \in Used(partner_information) :
       partner_information[i] = partner_information[j] => i = j

\* set_partner_information of a partner with its address: setdefault and update.
SetAddress(id, address) ==
  partner_information' = [partner_information EXCEPT ![id] = address]

\* The same without address, from wakeup_partner: an id that is not stored is
\* stored, with WAKEUP_NOW only.
SetWakeup(id) ==
  partner_information' =
    [partner_information EXCEPT ![id] = IF @ = NoPartner THEN NoAddress ELSE @]

\* remove_partner; an id that is not stored is ignored.
Delete(id) == partner_information' = [partner_information EXCEPT ![id] = NoPartner]

\* remove_all_partner.
DeleteAll == partner_information' = [id \in Ids |-> NoPartner]
=============================================================================
