# TLA+ verification of HOMEd Matter

HOMEd Matter is a Matter controller: a single-threaded Qt program that
commissions Matter devices, keeps one secure session to each of them over UDP
(or BLE during commissioning), subscribes to their attributes and events, and
bridges all of that to MQTT. Everything runs in one event loop, so a handler is
atomic; what interleaves is handlers: datagrams, timers, BLE and mDNS signals,
MQTT commands, and the process being stopped and started.

## 1. Inventory

Notation: `file:line` refers to the repository root (`src/`).

| component | source | state | operations |
|---|---|---|---|
| MRP engine | mrp.cpp | m_pendingMessages, m_pendingAcks, m_peerCounters (window of 32) | messageSent, messageReceived, cancelPendingAck, isDuplicate, processTimers (every 50 ms) |
| Datagram path | matter.cpp:782-895, 2236-2399 | m_messageCounter, per-session localMessageCounter | sendUnencrypted, sendEncrypted, sendStandaloneAck, readyRead |
| Session table | case.cpp:9-77 | m_sessions: localId -> SessionInfo | addSession, removeSession, three finders, buildNonce |
| Connection manager | matter.cpp:200-331, 650-699, 2543-2785, 3032-3233 | m_pendingCASEs, m_reconnectTimer, m_threadReady, per device availability / nextReconnectAt / resumption pair | connectDevice, reconnectTimeout, pingTimeout, mrpRetransmitFailed, caseEstablished, caseFailed, removeDevice, resumeThreadDevices |
| CASE initiator | case.cpp:79-479 | m_state, keys, resumption data | start, handleSigma2, handleSigma2Resume, handleStatusReport, timeout |
| PASE initiator | pase.cpp | m_state, SPAKE2+ values | start, three handlers, timeout |
| Commissioning | matter.cpp:1595-1803, 1920-2214, 2403-2536, 2794-3030 | m_pendingCommissions, m_searching, m_bleCommissioning, m_caseNeedsCommissioningComplete, m_pendingCommissionDevice | search, BLE/mDNS found, PASE, 12 commissioning steps, hand-over to CASE |
| Discovery and subscription | matter.cpp:333-495, 1002-1500, 1565-1594 | endpoints, clusters, meta, subscriptionPrimed | three-stage discovery, subscribe, ReportData, SubscribeResponse |
| Sharing | matter.cpp:1530-1562, 1860-1890, 3439-3522 | m_pendingShares, verifier/salt maps | shareDevice, StatusResponse, InvokeResponse |
| Device database | device.cpp | device list, m_sync, store timer, database file | init, store, writeDatabase, addEndpoint, updateMultiple |
| Session persistence | matter.cpp:72-121, 1401-1424, 2677-2679, 3148-3169 | persisted keys and counter | restore, mirror, late capture, store |
| BTP | ble.cpp:364-531 | tx/rx sequence, window, rx buffer | startHandshake, handleData, sendSegments, sendAck |
| BLE (BlueZ) | ble.cpp:1-362 | adapter, scan, paths | D-Bus calls |
| mDNS | mdns.cpp | m_services, browse timer | browse, decodeMessage, processMdnsResponse, purgeOperational |
| TLV codec | tlv.cpp | none | encoder, decoder |
| Message codec | message.cpp | none | header encode/decode |
| Interaction model codec | interaction.cpp | none | request encoders, report decoders |
| Setup codes | matter.cpp:3235-3406, 3524-3551 | none | base-38, QR and manual codes, Verhoeff digit |
| Thread dataset | matter.cpp:150-207, 3408-3437 | m_threadReady, dataset | fetchThreadDataset, extractThreadExtPanId |
| Properties and actions | property.cpp, action.cpp | property values | parseAttribute, parseEvent, request |
| Crypto | crypto.cpp | none | OpenSSL wrappers, X.509 <-> TLV |
| MQTT front end | controller.cpp | last-seen cache, properties timer | commands, publications |

### How they interact

- `readyRead` finds the session by local id, decrypts, drops duplicates, lets
  MRP take the ack, marks the device Online and only then dispatches to the
  interaction-model handler; handshake messages go to the CASE or PASE session.
- `MRP::processTimers` (50 ms) calls back into Matter: `retransmit` writes the
  datagram again, `retransmitFailed` goes to `mrpRetransmitFailed`, which fails
  a CASE by its exchange id or takes the device's session down.
- `connectDevice` is reached from four places: the reconnect timer, a command,
  `resumeThreadDevices`, and the constructor. It creates the `CASESession` and
  the `m_pendingCASEs` entry; `caseEstablished` or `caseFailed` ends it.
- `caseEstablished` adds the session to the table, copies it to the device
  object of a battery device, and asks the database for a write 20 ms later;
  the constructor reads it back after a restart.
- Raw `DeviceObject *` pointers are shared by the device list,
  `m_pendingCASEs`, `m_pendingRemoveDevice` and `m_pendingCommissions`.

### What is hard here

Everything is single-threaded; the hard part is the order of handlers and what
a handler finds of what another left behind: exchange ids and session ids that
are reused, messages that outlive their session, a pointer to the device of an
earlier removal, timers that are or are not armed, a restart between the use of
a counter and its being saved. `PROJECT.json` lists each hazard at its line,
with the property that watches it or why there is none yet.

### What makes each part correct

- Connection manager: one link per device; nothing dangles after removal; no
  device is left with nobody trying; the resumption pair is dropped only when a
  resumption failed; a device that is reachable gets its session back.
- MRP: an ack clears its own message; nothing is delivered twice within the
  window; each reliable message is acked; every message ends acked or failed.
- Session persistence: counters only go up under a key; ids never meet; the
  session in use is the one kept, and it reaches the file.
- Commissioning: one command, one commission; a device is listed once and by its
  own answer; PASE sessions come and go with their commission; a PASE that gets
  no answer ends; what goes over BLE has a connection to go over.
- CASE: both ends have the same keys, whatever was lost, late or answered twice;
  a session never has the keys of an earlier one; a resumption that is worth
  nothing is not tried for ever.
- Discovery: a discovery sets a device up once, after all is read; the history of
  events in a priming report is not taken for news; the subscription is for the device as
  it was read in the end.
- BTP: what one end takes is what the other gave, message by message, also when
  a connection breaks off within one.
- Sharing: a code that was handed out opens a window of that device.
- mDNS: what is reported is there, at an address its own device gave.
- Codecs and certificates: what is read is what was written.
- Consumer: values that are subscribed to reach the user as they were asked for,
  and gestures once.

## 2. Plan

| order | module | what | status |
|---|---|---|---|
| 1 | Connection | connection manager and session table | done |
| 1 | DeviceLink | what it promises, per device | done, refined by Connection |
| 2 | Connection_proofs | inductive invariant, safety, refinement of DeviceLink | done |
| 3 | Mrp | MRP engine and datagram path | done |
| 4 | SessionStore | session persistence and database writes | done |
| 5 | Commissioning | search, BLE/mDNS race, PASE, the step machine, hand-over to CASE, one CASE flag shared by all devices | done |
| 6 | Discovery | three-stage discovery, subscription and priming, over one session | done |
| 7 | CaseHandshake | CASE with symbolic keys, resumption and its fall-back, against a device that resumes, refuses, restarts or is late | done |
| 8 | Btp | segmentation, reassembly, connections that break off | done |
| 9 | Tlv, InteractionModel, MessageCodec, SetupCode, Certificate | the encodings, as operators | done |
| 9 | Codecs | each of them written by one end and read by the other | done |
| 10 | Sharing | the two exchanges of a share, and the codes | done |
| 11 | Mdns, Consumer | the mDNS cache; values, actions and what MQTT publishes | done |
| 12 | CaseHandshake_proofs | inductive invariant, KeysAgree, PairsAgree and KeysNew | done |
| 12 | Mrp_proofs | inductive invariant, AckMatches, AtMostOnce and AckAccounted for peers at addresses of their own | done |
| 12 | SessionStore_proofs | inductive invariant, MarginSuffices, CapturesActive and IdsApart | done |
| 13 | Commissioning_proofs | inductive invariant, OneAttempt, ListedAnswered, PlacesApart and SessionsMatch | done |
| 14 | Discovery_proofs | inductive invariant, SetupsCounted, NoReplay and SubscriptionCovers | done |
| 15 | Parts_proofs | Sharing: inductive invariant, SharedOpens | done |
| 16 | Parts_proofs | Btp: inductive invariant, MessagesWhole | done |
| 17 | Codes_proofs | both setup codes are read as written; the check digit | done |
| 18 | Parts_proofs | Mdns: inductive invariant, ServicesRight; SharedOpens from Codes_proofs | done |
| 19 | Parts_proofs | Consumer: inductive invariant, UserRight | done |

What each part has to itself is a module; `MCParts` puts the five of them that
share no state with any other into one run. `MCCaseHandshake` and `MCCommissioning`
each have a second part beside their own, Connection and Mrp with one device, of which
they check the liveness. Modules that are proved
about declare no RECURSIVE operator. `Tlv` does, and holds no theorem, nor do
those over it.

## 3. Connection (matter.cpp, case.cpp)

One action per handler: `CaseSigma2`, `CaseEstablished`, `CaseFailed` (the CASE
session's signals), `MessageAcked` and `MessageFailed` (MRP), `Receive` (an
encrypted message and the requests its report leads to), `ReconnectTimeout`,
`PingTimeout`, `ThreadUp`, and the commands `SendCommand`, `DiscoverCommand`,
`RemoveFabric`, `RemoveForced`, `RemoveResponse`. `Tick`, `PeerReboot` and
`PeerSettles` are the environment.

| variable | code |
|---|---|
| listed, endpoints, online, nextReconnect, resumption | device list and the fields of `DeviceObject` |
| caseFor, casePhase | `m_pendingCASEs` and the state of the `CASESession` there; "Gone" is an entry whose session was deleted |
| owner, active, validating | `m_sessions`, `SessionInfo::active`, `resumptionPendingValidation` |
| outbound | the messages MRP still retransmits, as a set |
| timer, threadReady, pendingRemove | `m_reconnectTimer`, `m_threadReady`, `m_pendingRemoveDevice` |
| held, asked, sound | the peers: which sessions they hold, who owes a RemoveFabric answer, who will not fail again |

Abstractions. Identifiers are taken from a set and any free one may be next;
reuse of an id that is in use needs the 16-bit counters to wrap and is
SessionStore's subject. `nextReconnectAt` is compared with now in the code;
here it is Zero, Due or Later, and `Tick` makes Later Due. A message is the
device, exchange and session MRP would look up when it fails.

Runs:

- `connection_pair`: a mains device on Thread that resumes and is rediscovered,
  and a battery device that is removed; two exchanges, two sessions, two
  reliable messages at a time, which is enough for both devices to be in every
  phase together and for a message to outlive its session. All invariants, the
  inductive invariant (types are part of it), `ResumptionKept`, and the
  refinement of `DeviceLink`.
- `Reconnects` is checked by the run `case`, whose module `MCCaseHandshake` starts with
  one of two parts and lets that one move, the other standing still: CaseHandshake, or
  Connection on one mains device on Thread (two exchanges, two sessions, three reliable
  messages at a time). Its peer may fail in any way until it settles. Then it gets back
  to a session that its peer holds, and keeps it.
- `exchange_zero`: a finding (section 11).

Fairness of Connection: timers expire (`ReconnectTimeout`, the ping,
`Tick`), MRP ends each message, the border router comes up, and a CASE the peer
can answer proceeds. Qt delivers timers and MRP counts its retries, so these
are what the code guarantees once the peer answers. Strong fairness is used
where the bound on `outbound` disables a step for a while. No command, report
or failure is assumed.

Two gaps are spelled out as exceptions, as the code has them. A battery device
that goes silent is marked Offline and keeps its session (matter.cpp:2695):
every reconnect path then skips it, and nothing is sent to it that could fail.
And `resumeThreadDevices` (matter.cpp:220) skips a Thread device with no
endpoints, which `connectDevice` had left to it. `NeverStranded` excepts both;
`Reconnects` speaks of mains devices and excepts the second.

`DeviceLink` is what the manager promises with none of this machinery: per
device a link that is down, connecting, up or removed. `LinkState` maps to it.

## 4. Mrp (mrp.cpp, matter.cpp)

`Send`, `Receive` (with or without an immediate answer), `ProcessTimers` and
`NewSession` are the controller's steps; `PeerSend` is a peer. A datagram stays
on the wire once sent, so it may be taken late, twice, in any order or never.
`ProcessTimers` is one run of the 50 ms timer: it flushes the acks that are due,
retransmits, and reports what is out of retries; the report takes the session
down, as `mrpRetransmitFailed` does.

Abstractions. Only encrypted messages; handshake messages are Connection's.
Time is abstract: any set of messages may be due. `AtMostOnce` concerns a window
that is not overrun: the code forgets a counter after 32 others, and so does the
model after `Window`, with no more messages than that being sent.

Runs:

- `mrp`: two peers whose counters coincide, at addresses of their own, one of them
  with a second session after the first: the inductive invariant `IInv` (section 10)
  and what it is for, `AckMatches`, `AtMostOnce` and `AckAccounted`. Window 2 and three messages sent keep the queue of the first
  session alive in the second.
- `Resolved` and `AcksFlow` are checked by the run `commission`, whose module
  `MCCommissioning` lets Commissioning move or Mrp with one peer (two messages, three
  retries, two messages of the peer): under a timer that finds what is due, every message
  is acked or reported failed and every owed ack is sent. In its initial state neither
  part has a timer running, so the fairness of the one that stands still asks nothing.

`AckMatches` speaks of the latest session: an ack on it may clear an entry of a
dead session with the same counter when its own entry is gone already, which
harms nobody. It needs addresses of their own: `messageReceived` compares the
address and not the port, so that two peers behind one address would clear each
other's entries.

## 5. SessionStore (matter.cpp, device.cpp)

The session of a battery device, from the CASE that makes it, through the copy
in the device object and the database file, to the constructor of the next run.
`Restart` is clean (last write in the destructor) or a crash. `WriteDatabase`
may fail, after `m_sync` has been reset. `highest` is a history of the last
counter used under a key, `sent` of how many messages were sent under it, counted
one by one and apart from the counters; `copied` and `filed` of whose counter the
device object and the file have, and of `sent` when it was taken; `resumed` of
what was restored. From these `Lapses` says at a restart which keys the margin is
not meant for (`lapsed`): of those more than `Margin` messages were sent since the
counter was copied, or that counter was restored once already (the start uses up
the margin and saves nothing: `store_counter_reuse`), or it is the counter of
another session (a hazard at matter.cpp:1408, see below).

Run `store` has three bounds of its own to start from (`Bounds`): `Pair`, two
battery devices through a restart or a crash; `One`, one device through two, and
rediscoveries; `Failing`, the same with writes that may fail in place of
rediscoveries. Ids are modulo
3, so that the last id is reached, and Margin is 1. `Counted` is the pass of the
constructor that takes `m_sessionId` past the ids in the file, `Restored` the
session it makes of a kept one. Its properties:

- `IInv`: the inductive invariant of section 10, which says that a key, in the
  table, in a device object or in the file, is of one device, and that an id in any
  of them has been counted.
- `MarginSuffices`: no counter is used twice under a key that has not lapsed,
  through two restarts, lost writes and writes that fail. That what is sent between
  the copy, the write and the start adds up to what the counters say is not given by
  `Lapses`: `CountInv` (section 10) is what it takes.
- `IdsApart`: ids of attempts, sessions and kept sessions of two devices never
  meet. There are no more attempts than ids, so that ids do not wrap onto live
  ones; in the code that takes 65535 attempts of one run.
- `CapturesActive`: what the device object keeps is the session in use, but for
  rediscovery (below).
- `SessionSaved`: the kept session and the endpoints reach the file, or the session
  goes; not where writes fail (a hazard, device.cpp:691).

Fairness: the store timer runs out and the write succeeds. `DeviceList::store`
restarts the timer, so callers more frequent than its delay could postpone it;
time is not modelled and that is assumed away here.

Abstractions. A CASE is one step from id to end; connecting is Connection's.
`CapturesActive` is checked without rediscovery only. With it, the code may
leave stale keys in the device object (matter.cpp:1408, a hazard): the late
capture at a report is skipped when the device already holds keys, which after a
rediscovery, a restart and a new CASE are those of the session before. The next
ping then puts the counter of the new session beside the old keys, for which
`MarginSuffices` excepts them; no run shows it (section 11).

## 6. Commissioning (matter.cpp, pase.cpp, ble.cpp)

How a device is added, from the command to the device list. The handlers:

| actions | code |
|---|---|
| Connect, SearchTimeout | `connectDevice(code)`, `deviceNotFound` |
| ScanTimeout, BleFound, BleHandshake, BleDrop | the signals of `BLE` and their slots; `scanTimeout` |
| UdpFound, OperationalFound | `mdnsServiceFound` with a commissionable, an operational service |
| PaseAnswer, PaseEstablished, PaseRefused, PaseTimeout | `PASESession`'s handlers and timer, `paseEstablished`, `paseFailed` |
| StepAnswer, ReadAnswer, OtherReport | the commissioning branches of `handleInteractionModel`, then `continueCommissioning` |
| NocAnswer, NetworkAnswer | `NOCResponse`, `ConnectNetworkResponse`: the two ends of a commission |
| FiveSeconds, CaseEstablished, CaseFailed, Reconnect | the `singleShot` of AddNOC, the CASE signals, `reconnectTimeout` |
| CompleteAnswer | `CommissioningCompleteResponse`: the device is listed |
| Unanswered, Unreachable, ThreadUp | the devices and the border router |

`commission` is `m_pendingCommissions` in the order of local session ids: the
code looks for the first entry whose state suits an answer, and so does
`Matching`. A commission of PASE has the state of its `PASESession`. `asked` is
what devices were asked and may still answer; a request over BLE is gone with
the connection. `flag` is `m_caseNeedsCommissioningComplete`, which
`connectDevice` reads for whatever device it dials. `answered`, `given` and
`installed` are not state of the program.

Abstractions. Each command takes a fresh node id, so a node is the number of its
search. Keys and certificates are the commission whose CSR they come from: a
device refuses an AddNOC that is for another's key. CASE is one step from start
to end. A late duplicate of an answer is not modelled: `readyRead` drops
duplicates (module Mrp) and BTP is ordered. The states CommissioningComplete and
Done of `CommissioningState` are never entered by the code. `CompleteAnswer`
ignores the status in the answer, as the code does. The answer to a RemoveFabric,
also a NOCResponse, is left to Connection: a removal and a commission that
waits for AddNOC are not combined.

Run `commission` checks the inductive invariant `IInv` of section 10 (types are
part of it) and has two manners to start from (`Manners`):

- "steady": a user who starts the next commission when nothing is under way,
  devices that keep their sessions once listed, four commands: `OneAttempt` and
  `ListedAnswered`. Four are enough for a commission over BLE that fails, its
  left-overs (`flag`, `pending`, a stuck CASE), a commission over UDP and another
  after it. Without the two restrictions neither holds: the flag and the pending
  device are one for all, and a device that reconnects, or a second command, meets
  those of another (see `commission_flag`, and the hazards at matter.cpp:319 and
  1896).
- "hasty": two commands at any time, two addresses, devices that lose their
  sessions: `PlacesApart`, `SessionsMatch` and, under fairness, `PaseEnds`. Two
  commissions at once are what each of them relates.

Fairness: the timer of PASE runs out, which Qt sees to. No answer and no signal
is assumed.

What the model has as the code has it: an answer is matched by the state of a
commission and not by the session it came on, so a commission that got stuck
takes the answers meant for the next one; a step after PASE that is refused or
lost is never ended; a commission that waits for ArmFailSafe is moved to the
address of whatever service is found next; a device whose first CASE fails before
it is listed is not tried again; that of a Thread device is put off while
the border router is down and not taken up again, for `resumeThreadDevices` knows
listed devices only.

## 7. Discovery (matter.cpp, device.cpp)

One device from its first CASE on. `Establish`, `SessionLost`, `DiscoverCommand`,
`Restart` and `ThreadUp` are `caseEstablished`, the loss of the session, the user's
`discoverDevice`, the constructor and `resumeThreadDevices`, as far as they touch
what is known of the device. `PartsReport`, `ServersReport` and `MetaReport` are the
three stages of the ReportData handler, `PrimingReport` and `SubscribeResponse` the
two answers to a subscription. `known`, `meta` and `setups` are the endpoints,
their features and how often `setupEndpoint` ran on them; `asked` is what is in
flight, answered in any order, as UDP allows.

Abstractions. An endpoint has clusters that step 3 asks about, or not; which have
is chosen at the start. A device answers with one report: an answer in two parts
would finish the discovery twice (a hazard, matter.cpp:1401). The StatusResponse to
a priming report is always sent; in the code not while any device is being
commissioned over BLE (a hazard too). Restarts are clean; crashes are
SessionStore's.

Run `discovery`: a battery device behind the border router, two endpoints, two
lost sessions, two commands, a restart, up to three requests in flight: enough
for two discoveries and a subscription to overlap. A mains device, or one off the
mesh, does less of the same. Its properties:

- `IInv`: the inductive invariant (section 10; types are part of it).
- `SetupsCounted`: what is true of the comment at matter.cpp:1240. `discoveries` counts
  what was under way when the endpoints were last forgotten, reloaded or missing: each
  read that was in flight then, and the reload of a restart. Set-ups and the reads that
  may yet lead to one are never more than that: a discovery sets the endpoints up once
  and after its reads. With two of them, or one and a restart, the properties of a
  device are doubled, and the property allows it (section 11).
- `NoReplay`: the flag `subscriptionPrimed` keeps out the history of events, in two
  cases excepted: two subscriptions in flight, which the flag cannot tell apart
  (`crossed`), and a restart while one was in flight (`carried`), which run
  `replay_restart` shows.
- `SubscriptionCovers`: at rest, the device is subscribed to as a whole.
- `Settles`: once sessions last, the device ends set up, subscribed to and heard.

The last two except `Unfinished` (and `SubscriptionCovers` two subscriptions in
flight, which may arrive in either order): when step 3 is lost with its session or is
answered with errors, the endpoints are registered and no later CASE reads their
features; the device stays without those exposes until the user discovers it
again.

Fairness: a session comes back (Connection), the border router comes up, and a
device answers its requests while the session lasts. The last is an assumption
about devices; a device that does not answer loses its session by MRP, which is
`SessionLost`.

## 8. CaseHandshake (case.cpp, matter.cpp)

CASE with one device, step by step: `Start` is `connectDevice` and
`CASESession::start`, `HandleSigma2`, `HandleSigma2Resume` and
`HandleStatusReport` its three answers, `GiveUp` its timer or MRP; each ends
in `caseEstablished` or `caseFailed`, which are part of the action. `Answered`,
`Unreachable`, `Ask` are what becomes of the session; `WriteDatabase` and `Crash`
bring back resumption data of an earlier time.

Abstractions. Keys are symbolic: a secret is the pair of ephemeral keys it comes
from, a key what it is derived from (secret, transcript, random, resumption id).
Who knows the same derives the same. Randoms and ephemeral keys are numbers that
are drawn once each. Datagrams stay on the wire: they are lost, late or out of
order. The device is one of three that do something wrong: "deaf" to the
sessions it has resumed, "wrongMic" in its answer to a resumption, or
"forgetful" of a resumption id in Sigma2; it may also refuse, restart, or not
resume.

Run `case`: two attempts while anything goes wrong, one crash or restart, three
attempts after. Three are needed: one meets what trouble has left, the second is
a resumption that fails, the third the full handshake. Its properties:

- `IInv`: the inductive invariant (section 10; types are part of it).
- `KeysAgree`: the session of the controller has keys its device has derived.
- `PairsAgree`: a resumption id that both keep stands for one secret.
- `KeysNew`: a new session has keys never used before (its counter starts over).
- `Recovers`: once the network is calm the controller gets a session that works
  and keeps it, whatever the device does wrong: the comments of `caseFailed` and
  `mrpRetransmitFailed` on dropping the resumption.

Fairness: once the network is calm, something of what is due (an arrival, a
timer, a request and its end) goes on happening. It is one fairness condition on
all of them together, no more than that Qt's loop runs.

## 9. Parts

`MCParts` starts with one of five parts and lets that one move. They share no
state in the code either (BTP's flag `m_bleCommissioning` apart, a hazard at
matter.cpp:2443), so that what they do together is what each does alone.

### Btp (ble.cpp)

`Connect`, `Disconnect`, `HandleHandshake`, `HandleSegment`, `SendMessage` are the
controller's; the device sends and takes segments, acks, and closes on whatever is
not the next segment. `MessagesWhole`: both ends take what the other gave, byte
for byte; the device never closes; it is never left with an answer its window
does not let it send, though the controller never acks alone (`sendAck` has no
caller); and the flag does not outlive the connection. Bounds: packets of 6 and
8 bytes (1 and 3 in the first segment), messages of one to several segments that
fill their packets to the last byte or do not, sequence numbers modulo 5, so
that they go round within a connection, three messages each way, two
connections. Not sent here: messages longer than a window, which the code would
send without waiting (it does not look at the window); and an MTU of 5 or less.
The module ends with what `MessagesWhole` rests on, `BtpInv`: where a connection
is (`Beginning`, `Idle`, `Sending`, `Answering`), and what either end then has and
what is on its way, in terms of the packets a message is cut into (`Cut`, `FrontOf`,
`Left`, `PacketOf`). It is proved for all sizes and lengths (section 10).

### Sharing and SetupCode (matter.cpp)

`ShareDevice`, `HandleStatusResponse`, `HandleInvokeResponse`, a session lost and
replaced, and the device. `SharedOpens`: whoever enters a code that was handed
out, manual or QR, finds the device and knows the passcode of a window that was
opened there. The codes are generated and parsed digit by digit and bit by bit.
Two devices, two shares, two sessions each, two passcodes and discriminators; for every
other the codes are proved to be read as they are written (section 10). A
share whose answer is lost stays pending, so that the device cannot be shared
again: the model has that as the code does. `MayShare` refuses a second share of a
device, which is what the proof of `SharedOpens` turns on (section 10).

### Mdns (mdns.cpp)

`ProcessMdnsResponse` takes any part of a device's records in any order;
`PurgeOperational` is the removal of a device. `ServicesRight`: what is reported
has been announced since it was last purged, at an address its own device gave;
and the second whole answer of a device is enough to report it, whatever the
order (an address that comes before its host's name is lost the first time).
Three instances on two hosts, one of them in two fabrics; IPv4 and IPv6. An answer has
four records at most (`MaxRecords`), which is all a host with two addresses has to
say of an instance: a pointer, its target and both addresses. It is proved for all
(section 10).

### Tlv, InteractionModel, MessageCodec, SetupCode, Certificate; Codecs

Pure functions, byte for byte. `Codecs` writes one thing at a time and has the
other end read it; the reader or writer on the device's side is written from what
this side expects of it and marked external. `ReadBack`: what is read is what was
written, over integers about the limits of every size, strings about 256 bytes,
containers in containers, requests and answers of up to two entries, headers with
any optional fields, datasets with long entries, and codes at both ends of
their ranges.

A certificate is signed as DER, sent as TLV, and made again by the device to verify
the signature, so what it makes must be what was signed: names in order,
extensions in order, FALSE left out (the comments of `generateX509Cert`). One
exception is in `Signed`: a serial number whose first bit is set loses the zero
DER has before it, and a device that takes the bytes for the content of a
DER integer has another serial number than the one signed. The code clears the
first bit of the first byte, but that byte may be zero and is then dropped.

The check digit of a manual code is generated and not verified
(`parseManualCode`); `ReadBack` shows of the codes it writes, and `MistypedCaught`
(section 10) of every code, that it would tell every slip of a digit and every swap of
neighbours. The comment in message.h:22-31 has the version in bits 0-1
and DSIZ in bits 4-5 of the flags; the code has the destination in bits 0-1
and the version in bits 4-7.

### Consumer (action.cpp, property.cpp, controller.cpp, matter.cpp, device.cpp)

A user, MQTT and a device of two endpoints: `DeviceAction`, `HandleReport` (of any
one to three reports), `UpdateProperties` (the timer), and the device's side. The
device tells only of what it was asked to tell (`Says`): the values for which
`buildSubscribePaths` has a path (`SubscribedValues`) and the events of
`buildSubscribeEvents` (`Subscribed`).
`UserRight` is two things. `GesturesShown`: each gesture at a switch reaches the
user once, in order, as an action its endpoint offers; the features decide which
events are subscribed to, what they mean and what is offered, in three places of
the code that must agree. `ValuesShown`: when all is quiet the user is shown what
the last command asked for, of each value that is subscribed to; a level to the step,
for its two scales both round down. The lock and the position of a cover are offered
and parsed but never subscribed to, and what is asked of a cover is on another scale
than what is read from it: `MCConsumer` has a cover for the run `position_scale`
(section 11).

## 10. Proofs

`Connection_proofs` holds for every set of devices,
exchanges, sessions and every bound, from `ConnectionAssumption` alone (the
device classes are subsets of Devices; None is not an identifier).

The inductive invariant `IInv` is the four invariants plus three facts they
need. `PhaseOK`: an entry of `m_pendingCASEs` has a phase exactly when it has a
device, or `CaseSigma2` could act for nobody. `CaseAddressed`: a device with an
attempt has an address, so that the reconnect timer takes it back when the attempt
fails. `MainsOnline`: a mains device with a session is Online, which is why the
loss of a session always goes through a handler that arms the timer; without
it, `NeverStranded` is not inductive, for a session could vanish unwatched.
The proof has a lemma per action; `StartCASEFacts`, `EraseCasesFacts` and
`EraseSessionsFacts` describe the three shared helpers, and `Armed` says that
whatever else a step does, `scheduleReconnect` at its end leaves nobody
stranded.

| theorem | says |
|---|---|
| Invariant | `IInv` always holds |
| TypeCorrect | types |
| OneLinkPerDevice | `Exclusive` |
| NothingDangles | `NoDangling` |
| NobodyStranded | `NeverStranded` |
| ResumptionIsKept | the action property `ResumptionKept` |
| ImplementsDeviceLink | every behaviour of Connection is one of DeviceLink |

The refinement proof shows for each handler that a link depends on three facts
of its device (listed, a session, an attempt), that the handler disturbs
them for one device at most, or, for the reconnect timer, starts links that
were down; `Exclusive` from `IInv` is what makes a lost session mean down and
not connecting.

`CaseHandshake_proofs` holds for every set of quirks and every number of attempts
and restarts, from `CaseHandshakeAssumption` (the bounds are numbers in order;
None is not a number). `KeysAgree` is not inductive: a session can only be as
good as the message that made it. So `IInv` says of what is under way that it is
true for the handshake that waits for it, and of an earlier attempt's nothing:
a Sigma1 offers the pair the handshake keeps (`OfferKept`); a Sigma2_Resume that
verifies was made with keys this end will derive too (`ResumeAnswered`); a
Sigma3 seals the transcript its keys come from (`Sigma3Sealed`); a good
StatusReport says that the device has them (`ReportTrue`). For `PairsAgree`,
every resumption id about - kept, in the file, under way, or in a handshake at
either end - comes from one answer of the device (`Numbered`) and stands for one
secret (`Consistent`). For `KeysNew`, keys are of the attempt that made them
(`KeysDated`). The lemma `Losing` covers every step that only loses something, a
crash included; `Establishing`, `Answering` and `DevicePairs` what the others
gain.

| theorem | says |
|---|---|
| Invariant | `IInv` always holds |
| KeysAlwaysAgree | `KeysAgree` |
| PairsAlwaysAgree | `PairsAgree` |
| KeysAlwaysNew | the action property `KeysNew` |

`Mrp_proofs` holds for every number of peers, messages, sessions and
retransmissions, from `MrpAssumption` and `DistinctAddresses`, which each theorem
states: `messageReceived` knows a peer by its address without the port, and
without that assumption `AckMatches` is false. Every session counts from 1
again, so an ack's counter alone may be that of several entries of the queue.
`Numbered` says that messages to a peer rise with their session and, within one,
with their counter, so that the entry of the latest session is the last of
those an ack may clear: the search from the end of the list finds it.
`AcksTrue` says that whatever is on the wire acks a message its sender was sent
on that session, so that no message is acked before it is sent. `Clears` puts the
two together for one datagram.

`AtMostOnce` rests on the window of counters. `WindowKeeps` says what the window
is: the last counters that came from an address, the latest one last. It gives
`RepeatsFar` for any traffic: between two handlings of one message lie as many
others of its address as the window holds. A peer numbers its messages one by one
(`WireNumbered`), so while none has sent more than the window holds
(`WithinWindow`) there is no room for a repeat; `NotTwice` is the counting. The
condition is not a bound of the model but the limit of the code: beyond it a
repeat of an old message is taken for new. `AckAccounted` follows from `AtMostOnce`
with `OwedOnce` (an ack is due once) and the lemma `CancelsItsOwn`: an answer
that takes an ack along cancels the one that is for its own exchange.

| theorem | says |
|---|---|
| Invariant | `IInv` always holds, given `DistinctAddresses` |
| AckAlwaysMatches | `AckMatches`, given `DistinctAddresses` |
| RepeatsAreFar | `RepeatsFar`, for any traffic |
| HandledOnce | `AtMostOnce` while `WithinWindow` |
| AcksAccounted | `AckAccounted` while `WithinWindow` |

`SessionStore_proofs` holds for every set of devices and every bound, from
`SessionStoreAssumption`. `MarginSuffices` compares the counter of a session with
the last one used under its key, which is not what a restart looks at: `CountInv` is
the link. What was used under a key is at most the counter kept beside it, in the
device object or in the file, and the messages sent since that was copied (`Behind`,
`Within`), through copies, writes and restarts that use the margin up; where it is
kept with counter 0, at the end of a discovery, what was sent is all there was. It
needs to know whose key it is: `KeysApart`
(a key kept, or in the file, is of one device and of its session), `OneSession`
and `SessionsApart` in the table, and `KeysFresh` (the key of an attempt in flight or to
come is used nowhere). `KeptKnown` (only what is known to have a battery, since
its discovery ended, has a session kept) carries `CapturesActive` through the end
of a discovery. `Transmitting` and `Steady` serve the steps that make no session;
`CaseEstablishedStep` and `RestartStep` are the two that do.

`IdsApart` must survive the counter's starting from 1 again with each process.
`IdsCounted` has every id that is in use, kept or in the file below
`m_sessionCounter`, so that the next one is new; after a restart that is so only
because the constructor counts past every id it restores. `CountsPast` proves that
of its loop: where it did not, there would be a device least in the order of the
loop at which it fails (`LeastOf`), and it does not fail there. And
everything in the file must be restored for this, which `KeptKnown` gives for
devices that are not rediscovered. Hence the condition `Unwrapped`: fewer ids were
taken than there are (65535 attempts of one run), and no device is rediscovered.

| theorem | says |
|---|---|
| Invariant | `IInv` always holds |
| MarginAlwaysSuffices | `MarginSuffices` |
| AlwaysCapturesActive | `CapturesActive` |
| IdsStayApart | `IdsApart` while `Unwrapped` |

`Commissioning_proofs` holds for every number of commands, places and devices and
for all manners, from `CommissioningAssumption` and `NoneAssumption`.
`SessionsMatch` and `PlacesApart` need little: commissions are made one after
another and keep the node of their command (`Ordered`), and a search or a BLE
connection has a command (`Commanded`, `BleTrue`). `OneAttempt` and
`ListedAnswered` are about a user who waits, and say something although the code
matches answers by state alone. Their invariant is `OneThread`: at any time there
is one of a search, a connection, a commission, its five seconds, its CASE, its
last answer, and so nobody else for an answer to be taken for. `Unused`: a search
that may still make a commission has made none, which is the race of BLE and
mDNS. `ListApart`: no node that is on its way is listed, each had a commission, and
the answer that is owed is the pending device's. The lemmas `Begins`, `GoesOn`,
`Moves`, `Stays` and `Goes` say what becomes of the invariant when a commission is
begun, goes on, is moved from BLE to an address, or ends; `LastGone` and
`MovesOn` are the steps from one place of the thread to the next.

| theorem | says |
|---|---|
| Invariant | `IInv` always holds |
| OneCommission | `OneAttempt` |
| ListedOnItsAnswer | `ListedAnswered` |
| OneAtAPlace | `PlacesApart` |
| SessionsFollow | `SessionsMatch` |

`Discovery_proofs` holds for every set of endpoints and any number of lost
sessions, commands and restarts, from `DiscoveryAssumption`. `AskedFits`: reads
are of the device as a whole and die with their session. `KnownWhole`: what is
registered is all of the endpoints or none, which is why a restart or a lost
session finds no half of a discovery but for the features. `SetupsCounted` is
inductive because each answer takes a read away and asks for one more or sets up,
but never both, and because what forgets or reloads the endpoints counts anew
(`CountedStill`, `CountedInPlace`, `CountedSetUp`). `OneSubscription`: unless the
history says otherwise there is one subscription in flight, so that its answer, which
sets the flag, leaves no priming report to come. `SubscriptionCovers` speaks of a device at
rest; `Aimed` says of one that is not that the subscription asked for last is for
the whole. `Subscribes`, `Finalizing` and `ReadAnswered` are lemmas on the three
helpers that several handlers end in.

| theorem | says |
|---|---|
| Invariant | `IInv` always holds |
| SetUpOncePerDiscovery | `SetupsCounted` |
| NothingReplayed | `NoReplay` |
| SubscribedAsAWhole | `SubscriptionCovers` |

`Parts_proofs` is in four parts. Of Sharing it holds for every set of devices,
passcodes, discriminators and any
number of shares and sessions, from `SharesAssumption`. Answers to a share are
told apart by nothing but their session, so `SharedOpens` depends on there being
one message of a device's share on its way at most (`OneMessage`), which is so because
`MayShare` refuses a second share; that message agrees with what is remembered
(`OfShare`), and so the codes given are those of a window that was opened
(`CodesOfWindow`). That a code is read as it was written is `CodesRead`,
which is proved in `CodesAreRead` from the theorems of `Codes_proofs`, for every passcode
`parseQRCode` and `connectDevice` take, 1 to 99999998, and every discriminator of 12 bits.

| theorem | says |
|---|---|
| SharingInvariant | `SharingInv` always holds |
| SharedAlwaysOpens | `SharedOpens` |

Of Mdns it holds for every set of instances, hosts and addresses, from
`MdnsAssumption`, for every bound and every order of the records of an answer.
`LearnedStepByStep` makes of `Learned` the states an answer goes through, record by
record; `NamedTrue` and `ApplyTrue` say that each of them holds of a service only what
its own device gave, `NamedBetter` and `ApplyBetter` that none of them loses what was
known. `MdnsInv` is the inductive invariant: it adds to `FoundTrue` that the same is
so of services that are not reported (`AllTrue`), and what the history of an instance
means for what is known of it (`WholeKnown`): a whole answer, in any order, leaves its
host known, and a whole answer after that one its address too, because then there is
no address record that comes too early. That is the step `FoundSoon` turns on.

| theorem | says |
|---|---|
| ServicesAlwaysRight | `ServicesRight` |

Of Btp it holds for every set of packet sizes, any space of sequence numbers, any
window shorter than it, and any lengths and numbers of messages and connections, from
`BtpAssumption`: packets are larger than 5 bytes (the first carries five bytes
of header), no message is empty, a window has two segments at least and less than
there are numbers, and the absent field is not a number. The argument:

- Where packets end. `Packets` divides a length, `Cut` multiplies; `Filled` and
  `Cuts` show that they meet: the last packet ends with the message, the others
  before it and are full. `CutAt` says it of one packet, `PacketIs` that it is no
  larger than the device takes and that its flags tell the first and the last,
  `TakenIs` and `LeftIs` what is together after it and what is left. `Segmented`:
  what `sendSegments` computes, with room and offset carried along, is these packets.
- Where a connection is. `BtpInv` says that it begins, is idle, or has a message
  under way in one direction; then `out` and `in` are the packets not yet taken, in
  order, and the buffers those that are. After the handshake nothing is ever left
  over: a buffer of a connection that broke off is cleared by the first segment of the
  next, as a message begins with one (`h > 0` before the buffer is spoken of).
- Numbers go round. `Wraps` and `Onward`: `txSequence` is ahead of the device by the
  packets that are out; `OneMore`: a segment more makes the device's window one
  larger, also past the last number.
- The window. What the controller acks with a message's first segment is all the device
  has sent (`peer.acked = peer.sent`); so the device begins its answer with an empty
  window, acks alone once at most, and an answer is shorter than the window.
  With `in` empty, what it has sent was taken, the answer is not at its end, and so
  there is room: the last conjunct of `MessagesWhole`.

There is one lemma for each action (`ConnectStep` to `DeviceAcksStep`); `Connected`
gathers what they share, `Under` and `UnderAnswer` where a connection must be for a
segment to be there.

| theorem | says |
|---|---|
| BtpInvariant | `BtpInv` always holds |
| MessagesAlwaysWhole | `MessagesWhole` |

Of Consumer it holds for every finite set of endpoints, any kinds of them, every number
of commands, gestures and changes by hand, and all levels asked for up to 255, from
`ConsumerAssumption`. `ConsumerInv` is what is true also while commands and reports are
on their way, where `UserRight` speaks mostly of when all is quiet:

- `Settled`: outside a handler no endpoint has an action left, and what has a value
  was published with that value. `UpdatedIs` and `RefreshStays` rest on it: refreshing an
  endpoint in which nothing has happened publishes nothing new, so a gesture is not
  shown twice however often the timer fires. That is what `Cleared` is for.
- `ValuesComing`: the last report of an attribute on its way tells what the device
  has, whatever earlier ones say; if none is on its way, what is shown is that already;
  and what the device has reads as what was asked of it last, of the values it reports (`DoneAsAsked`, where the two scales of a level
  meet: each rounds down, and together they lose one step at most).
- `GesturesComing`: the actions that are meant are those shown and then, one for each
  event that is reported, those to come. A sequence `c` counts them
  (`StillComing`); it exists because `GestureMatches` makes of each gesture, by the
  features of its switch, as many events as it means actions: here the three places
  that must agree on the features do.

A report's attributes are handled before its events, though the device said them in
another order: `AttributesHandled` shows that the first pass shows no action, and
`EventsHandled` that the second changes no attribute, each by induction on the reports handled.

| theorem | says |
|---|---|
| UserAlwaysRight | `UserRight` |

`Codes_proofs` is about `SetupCode` alone and has no assumption. Its definitions are
recursive functions, which mean something only once there is such a function:
`StepByStep` shows that there is (by induction over a set of numbers, `EveryNumber`,
which the library's well-founded minimum gives), and each definition has a lemma of
what it does step by step. On these rest:

- `NumberWritten` and `DigitsRead`: in any base, a number that fits is what its digits
  are, and digits are those of the number they are. `Fitting` says which numbers fit;
  that 24 bits fit into five characters and 16 into four is all base 38 needs.
- `FourChunks`, `ChunksOfFour`, `FlattenFour`: 88 bits are three chunks of 24 and one of
  16, their 19 characters three of five and one of four, and each decodes to its own
  (`Base38Read`). `QRParts` and `ManualParts` find each field where the reader looks for
  it; `PasscodeBits` puts together the passcode that is written in 7 and 20 bits.
- The check digit. `CheckedProduct`: the product of a code with its check digit is 0 in
  the dihedral group of ten (`TimesGroup`). One wrong digit leaves the product of what
  is after it and of what is before it alone, and permutations are one to one
  (`PermutedUnlike`), so the digit is the same (`OneWrong`); two neighbours swapped are
  told apart by `Unlike`, the property the permutation was chosen for (`TwoSwapped`).

| theorem | says |
|---|---|
| ManualRead | a manual code is read as the passcode and the upper four bits of the discriminator it was written from |
| QRRead | a QR code is read as the passcode and the discriminator it was written from |
| MistypedCaught | one digit mistyped or two neighbours swapped make the check digit wrong, in a code of any length |

Only model-checked, and why:

- Liveness (`Reconnects`, `Resolved`, `AcksFlow`, `SessionSaved`, `PaseEnds`, `Settles`,
  `Recovers`): fairness and ENABLED are out of the prover's reach.
- `Codecs.ReadBack`: the TLV encoding and what is built on it are RECURSIVE operators,
  in whose modules the prover has no SMT backend. Of what `ReadBack` says of setup codes,
  `Codes_proofs` has the same for every code.

## 11. Findings

Places where a run shows the program doing other than a comment says. Each is
one run that TLC ends with a counterexample.

| run | what |
|---|---|
| exchange_zero | `caseFailed` takes exchange 0 for "no pending CASE"; the entry of the first attempt of a process stays for ever and its device counts as in flight (matter.cpp:3205) |
| store_counter_reuse | two restarts before the first ping start from the same counter under the same key (matter.cpp:97) |
| replay_restart | a restart while a subscription of a Thread device is in flight: the device object starts primed, and the history of events is taken for news (device.h:41; the comment at matter.cpp:489 says it must not be) |
| position_scale | a position is sent in hundredths of a percent as if it were percent (action.cpp:111; property.cpp:73 says both are 0..100) |
| commission_flag | the flag for CommissioningComplete is one for all devices: a listed device that reconnects during a commissioning takes it, and is asked in place of the new device (matter.cpp:315; the comment at 3124 says "only during initial commissioning") |

Other behaviours of this sort are listed as hazards, with no run: the endpoints of a
rediscovered device set up twice, from the file by a restart while step 3 is out and
again by its answer on the restored session (matter.cpp:1400; the comment at 1242 says
once); the counter of a new session kept beside the keys of the one before, after a
rediscovery and a restart (matter.cpp:1408); a lock that is never shown as locked,
since nothing subscribes to its state (matter.cpp:350); one pointer for
all pending removals (matter.cpp:688), duplicates that are dropped before MRP acks
them, so that one lost ack is never repeated (matter.cpp:2324), and the last retry of a dead session's
message taking down the session that replaced it (matter.cpp:2759).

## 12. Not modelled

- BlueZ over D-Bus (I/O; its signals are actions of Commissioning), the sockets and
  names of mDNS, the D-Bus call for the Thread dataset.
- What OpenSSL computes, and the values of SPAKE2+: out of a model checker's reach;
  keys and secrets are symbolic.
- Colours (floating point), and the sensors, which divide what they get.
- MQTT topics, exposes and the start of the program: wording and wiring.
- The cluster identifiers (constants) and packaging files.
- Real time: timers expire in any order.
- The composition of Sharing with Commissioning (matter.cpp:1519, under the hazard at 688) and of
  Discovery with a commission over BLE (matter.cpp:1439).
