-------------------------------- MODULE Mdns --------------------------------
(***************************************************************************)
(* The cache of mdns.cpp: what processMdnsResponse makes of the records of *)
(* an answer, in whatever order a device puts them, which services it then *)
(* reports (serviceFound), and purgeOperational.                           *)
(*                                                                         *)
(* Abstractions.  An answer is about one service of a device; names are    *)
(* decoded, a port comes and goes with the host of the SRV record, and the *)
(* TXT data is left out.  Nothing ever expires: the TTL is not used.       *)
(***************************************************************************)
EXTENDS Naturals, Sequences, SequencesExt

CONSTANTS
  Operational,   \* instances of _matter._tcp
  Commissionable, \* instances of _matterc._udp
  Hosts, Addresses,
  HostOf,        \* the device an instance is of
  FirstAddress,  \* the address a device has at first
  V4,            \* addresses of A records; the others are of AAAA
  MaxRecords,    \* bound: records of an answer
  MaxAnswers,    \* bound: answers
  MaxMoves,      \* bound: changes of an address
  Unknown        \* no service, no host, no address

Instances == Operational \cup Commissionable

Service ==
  [host : Hosts \cup {Unknown}, address : Addresses \cup {Unknown}, operational : BOOLEAN]

ASSUME MdnsAssumption ==
  /\ Operational \cap Commissionable = {}
  /\ HostOf \in [Instances -> Hosts]
  /\ FirstAddress \in [Hosts -> Addresses]
  /\ V4 \subseteq Addresses
  /\ {MaxRecords, MaxAnswers, MaxMoves} \subseteq Nat
  /\ Unknown \notin Hosts \cup Addresses \cup Service

VARIABLES
  services,  \* m_services
  found,     \* what serviceFound was emitted for, with the last answer
  at,        \* devices: the addresses they have
  answers,   \* bound
  moves,     \* bound
  told,      \* history: instances heard of since they were last purged
  whole,     \* history: likewise, those that answered as a whole, and twice
  claimed    \* history: what a host has said its addresses are

historyVars == <<told, whole, claimed>>
mdnsVars == <<services, found, at, answers, moves, historyVars>>

-----------------------------------------------------------------------------
New == [host |-> Unknown, address |-> Unknown, operational |-> FALSE]
Pointer(i) == [type |-> "PTR", instance |-> i]
Target(i) == [type |-> "SRV", instance |-> i]
Addressed(h, a) ==
  [type |-> IF a \in V4 THEN "A" ELSE "AAAA", host |-> h, address |-> a]

(* The PTR records: whichever of the two services, it is known from now on. *)
Named(known, records) ==
  [i \in Instances |->
     IF Pointer(i) \notin ToSet(records) THEN known[i]
     ELSE [(IF known[i] = Unknown THEN New ELSE known[i])
             EXCEPT !.operational = @ \/ i \in Operational]]

(* One of the other records, for each service it may be about. *)
(* Mutant of Overrides: the name of a record is not compared. *)
OverridesAny(r, service) == r.type = "A" \/ service.address = Unknown
Overrides(r, service) ==
  /\ r.host = service.host
  /\ r.type = "A" \/ service.address = Unknown

Apply(known, r) ==
  [i \in Instances |->
     IF known[i] = Unknown THEN Unknown
     ELSE IF r.type = "SRV" /\ r.instance = i THEN [known[i] EXCEPT !.host = HostOf[i]]
     ELSE IF r.type \in {"A", "AAAA"} /\ Overrides(r, known[i])
     THEN [known[i] EXCEPT !.address = r.address]
     ELSE known[i]]

Complete(known) ==
  {i \in Instances : known[i] # Unknown /\ known[i].host # Unknown /\ known[i].address # Unknown}

(* Mutant of Learned: each record is taken in its place, PTR or other. *)
LearnedInPlace(known, records) ==
  FoldLeft(LAMBDA k, r : Apply(Named(k, <<r>>), r), known, records)
(* All PTR records first, and then the rest in order. *)
Learned(known, records) ==
  LET after[n \in 0..Len(records)] ==
        IF n = 0 THEN Named(known, records) ELSE Apply(after[n - 1], records[n])
  IN after[Len(records)]

MdnsInit ==
  /\ services = [i \in Instances |-> Unknown]
  /\ found = {}
  /\ at = [h \in Hosts |-> {FirstAddress[h]}]
  /\ answers = 0
  /\ moves = 0
  /\ told = {}
  /\ whole = <<{}, {}>>
  /\ claimed = [h \in Hosts |-> {}]

(* readyRead and processMdnsResponse.  Another's question may have brought   *)
(* the answer, which then need not hold all records.                         *)
ProcessMdnsResponse(i) ==
  LET h == HostOf[i]
      all == {Pointer(i), Target(i)} \cup {Addressed(h, a) : a \in at[h]}
  IN
  /\ answers < MaxAnswers
  /\ answers' = answers + 1
  /\ \E n \in 1..MaxRecords : \E records \in Injection(1..n, all) :
       /\ services' = Learned(services, records)
       /\ found' = {[instance |-> j, address |-> services'[j].address] :
                      j \in Complete(services')}
       /\ told' = IF Pointer(i) \in ToSet(records) THEN told \cup {i} ELSE told
       /\ whole' = IF ToSet(records) # all THEN whole
                   ELSE <<whole[1] \cup {i}, whole[2] \cup ({i} \cap whole[1])>>
       /\ claimed' = [claimed EXCEPT ![h] =
                        @ \cup {a \in at[h] : Addressed(h, a) \in ToSet(records)}]
  /\ UNCHANGED <<at, moves>>

(* Mutant of Purged: the first service at the address is dropped, no other. *)
PurgedOne(a) ==
  LET there == {i \in Operational : services[i] # Unknown /\ services[i].address = a}
  IN IF there = {} THEN {} ELSE {CHOOSE i \in there : TRUE}
Purged(a) ==
  {i \in Instances : services[i] # Unknown /\ services[i].operational
                       /\ services[i].address = a}

(* purgeOperational, when the device at an address is removed. *)
PurgeOperational(a) ==
  LET gone == {i \in Operational : services[i] # Unknown /\ services[i].address = a}
  IN
  /\ gone # {}
  /\ services' = [i \in Instances |-> IF i \in Purged(a) THEN Unknown ELSE services[i]]
  /\ found' = {}
  /\ told' = told \ gone
  /\ whole' = <<whole[1] \ gone, whole[2] \ gone>>
  /\ UNCHANGED <<at, answers, moves, claimed>>

(* A device gets another address, or one more. *)
Move(h, a) ==
  /\ moves < MaxMoves
  /\ a \notin at[h]
  /\ moves' = moves + 1
  /\ \E keeps \in BOOLEAN : at' = [at EXCEPT ![h] = {a} \cup IF keeps THEN @ ELSE {}]
  /\ UNCHANGED <<services, found, answers, historyVars>>

MdnsNext ==
  \/ \E i \in Instances : ProcessMdnsResponse(i)
  \/ \E a \in Addresses : PurgeOperational(a)
  \/ \E h \in Hosts, a \in Addresses : Move(h, a)

MdnsSpec == MdnsInit /\ [][MdnsNext]_mdnsVars

-----------------------------------------------------------------------------
FoundTrue ==
  \A f \in found : f.instance \in told /\ f.address \in claimed[HostOf[f.instance]]
FoundSoon == whole[2] \subseteq Complete(services)

(* What is reported is there: the service has been announced since it was    *)
(* last purged (the ghosts of the comment in purgeOperational), and the      *)
(* address is one that its own device has given.  And what is there is       *)
(* reported: whatever the order of its records, the second whole answer of a *)
(* device is enough, as an address that comes before the host it belongs to  *)
(* is lost once and no more.                                                 *)
ServicesRight == FoundTrue /\ FoundSoon
=============================================================================
