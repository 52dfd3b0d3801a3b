# A TLA+ verification project for ZRTP

This project models the ZRTP key agreement library of this repository (`ZRTP/`) and the
part of its demo application (`User_ZRTP/`) that decides when the library runs. Two
endpoints exchange Hello, Commit, DHPart, Confirm and Error packets over UDP until both
users are called back with the same keys or with a failure. Paths below are relative to
the repository's root.

## 1. The system

| Component | Source | State | Operations |
|---|---|---|---|
| `StateEngine` | `ZRTP/stateengine.cpp` | `actualState` (12 states), `sentMessage` (a pointer into a packet object), the timers `T1` and `T2` | `processEvent` (Start, Message, Timeout), one handler per state, `sendError`, `timerStart`, `timerNext` |
| `Zrtp` | `ZRTP/zrtp.cpp` | `myRole`, the packets kept (`hello` … `error`, raw pointers), hash images, the chosen algorithms, the keys | `processMessage`, `processTimeout`, building of packets, checks, negotiation, key derivation |
| Packets | `ZRTP/packet*.cpp` | the fields of each packet | `parse`, `toBytes` |
| `UserInfo` | `ZRTP/userinfo.h` | the supported versions and algorithms; `compareVersions` erases versions | – |
| `ZrtpCallback`, `MyCallbacks` | `ZRTP/ZrtpCallback.h`, `User_ZRTP/mycallbacks.cpp` | the user's mutex | `sendData`, `activateTimer`, `cancelTimer`, `enterCriticalSection`, `leaveCriticalSection`, `keyAgreed`, `agreementFailed` |
| `NetworkManager` | `User_ZRTP/networkmanager.cpp` | the sockets, a single-shot timer, a one-place signal mailbox, the list of threads, `counter`, `restarted` | datagram received or dropped, timer expired, signal processed, session restarted or ended |
| `ZrtpMessage`, `ZrtpTimeout` | `User_ZRTP/` | a delay, the datagram | a thread each that calls the library later |
| `Restarter` | `User_ZRTP/restarter.cpp` | a system semaphore | waits for the other application |
| Command line | `User_ZRTP/parser.cpp`, `main.cpp` | options | – |

**How they interact.** `NetworkManager` starts a thread for every datagram and every
expired timer; each sleeps for a random delay and calls `Zrtp::processMessage` or
`processTimeout`, which call `StateEngine::processEvent`. `processEvent` runs inside the
user's critical section, so one call is one atomic step; the order of the calls is
arbitrary. Handlers call back for sending, for the timer and for the outcome.

**What is hard.** Every packet may be lost, repeated, delayed past its successor and past a
timer. Each endpoint decides alone on a version and an algorithm. Both may be Initiator.
Handlers delete packet objects that `sentMessage` still points into, and read pointers the
constructor never set. The Responder reports success before the Initiator does. All
threads of an application share one mailbox for signals, and a restart has to wait for
them and for the other application. Every hazard is listed at its line in `PROJECT.json`.

**What makes each component correct.**
- *Engine:* what a timeout resends and what a handler reads exists; the timer runs
  whenever an answer has to be asked for again; contention ends with one Initiator.
- *Session of two engines:* confirmed endpoints have the same keys, no user is told of an
  agreement while the other is told of a failure, and losses alone never make it fail.
- *Version negotiation:* both settle on the same version, no lower than a common one, and
  keep a common version in their lists.
- *Algorithm negotiation:* both choose the same type and the Commit with it is accepted.
- *Application:* the signal of an outcome or of a restart is not lost, the timer ends up as
  the engine asked, no thread outlives its session, and the two applications go from one
  key agreement to the next together, do not hang on the way and end.
- *Packets:* what is written is what is read, and the MAC protects all of it.

## 2. Modules

```
Negotiation, KeyDerivation ── ZrtpPackets ── StateEngine ── ZrtpSession ── MCSession
     │                                                          ├─ INSTANCE KeyAgreement
     ├── VersionExchange ── MCVersionExchange                   └─ INSTANCE VersionExchange
     └── TypeNegotiation ── MCTypeNegotiation
PacketHello ──┘
NetworkManager ── MCNetworkManager
     └─ INSTANCE Rendezvous

ZrtpSession, NegotiationProofs ── EngineProofs ── SessionProofs ── ExchangeProofs ── NoFailureProofs
VersionExchange, NegotiationProofs ── VersionExchangeProofs
TypeNegotiation, NegotiationProofs ── TypeNegotiationProofs
NetworkManager ── NetworkManagerProofs
```

- **Negotiation** – the decisions, as operators: `chooseHighestVersion`,
  `compareVersions` (`SameVersion`, `LowerVersions`), `chooseAlgorithm`,
  `chooseFasterType`, `checkCompatibility`. A version string is the number it spells. The
  loop of `compareVersions` erases at index *i* and then increments *i*; `Erased` says what
  that does: of a run of higher entries the 1st, 3rd, … go.
- **ZrtpPackets** – packets as records of the fields the protocol decides on. Hash images,
  MACs and Diffie-Hellman values are symbolic: `src` names the `Zrtp` object whose hash
  chain, ZID and key pair a packet carries, and `mark` what the network did to it.
  `Unset`, `Null`, `Freed` and `Blank` are the contents of a packet pointer that is not
  initialised, NULL, deleted, or points to an object that was constructed but not filled.
- **KeyDerivation** – the keys `keyDerivation` makes of `s0`, as `s0` and the label that
  `kdf` hashes: which of them a role encrypts and MACs its Confirm with, which it opens
  the other's with, and what `keyAgreed` hands to the user.
- **PacketHello** – the Hello as words: `toBytes` and `parse`, each with its own loops over
  five lists whose lengths are packed into one word. It is the one packet without a fixed
  length.
- **StateEngine** – one action per branch of the handlers; every action is one call of
  `processEvent`. The variables have the names of the code's fields. `versions` holds the
  positions of the user's list that have not been erased, `keys` stands for everything
  `keyDerivation` sets, `locked` says that `processEvent` has left the critical section
  entered. The network is `net[n]`, the datagrams on their way to `n`.
- **ZrtpSession** – the environment: `TimerExpires`, `Lose`, `DamageTo` (a mark, and for
  "badBody" another value in a field the receiver acts on, `Garbled`), the threads
  (`ProcessMessage` and `ProcessTimeout` take any datagram or timeout, in any order),
  the properties and the refinement mappings.
- **KeyAgreement** – the abstract specification of what two users are promised: each is
  told once, never against the other, with the same secret.
- **VersionExchange** – the Hello exchange alone, for any version lists; any offer ever
  made may arrive at any time.
- **TypeNegotiation** – the choice of the key agreement type, for any lists, and the Hello
  that carries them (`HelloReadBack`). `HelloFitsAssumption` is that the lists fit the
  packet's arrays and buffer, which the code does not look at.
- **NetworkManager** – the demo application, twice. `mainAt` is where the main thread is:
  in the constructor, in the event loop of `main`, or waiting for threads in `restartZrtp`
  or `endZrtp`. `setActualSignal` is `Post` (and `RestarterSignals`): it overwrites
  `actualSignal` and adds an event to `signals`; `TakeSignal` processes one event and reads
  whatever the mailbox then holds. A thread in the critical section sets the signals of its
  callbacks one by one (`posting`), while the event loop goes on. Of the library it knows
  the contract: `engine` is how far the key agreement is, and the actions `ExchangeHello`
  to `IgnoreMessage` say which calls of `processEvent` there are, when they are possible
  given the peer's `engine`, and which callbacks they make in which order. `handler` is what
  the handler of the engine's state does about the timer: it sends again at a timeout
  (`SentHello`, `SentHelloAck`, `SentCommit`, `WaitConfirm1`, `WaitConf2Ack`,
  `WaitErrorAck`), ignores the timeout and posts nothing (`ReceivedHelloAck`, `WaitCommit`,
  `WaitConfirm2`, `Secured`, `Initial`), or ignores it too but cancels the timer at every
  message, before it looks at it (`WaitDHPart2`). A timer may be left running on the way
  into such a state: `ReceivedHelloAck` starts one for another version, and `SentHelloAck`
  goes to `WaitDHPart2` without cancelling its own. As the two applications have different
  roles there is no commit contention between them. That a
  rejection does not follow the peer's agreement is `KeyAgreement`, which `ZrtpSession`
  is checked to implement.
- **Rendezvous** – what the two semaphores are there for: nobody starts a key agreement
  before both have ended the one before.

Each operator commented `Mutant:` is an altered copy of the definition it precedes. The
specification does not use it; it shows that a property notices that error.

### What is abstracted

- Cryptography is perfect: a MAC holds if the packet is as its owner made it, and two
  secrets are equal if everything `createS0` hashes is equal. The four hash images are
  those of `src`. `diffieHellman` always generates a key pair for DH3k, whatever the
  chosen type, so one pair per identity is enough.
- Time: the intervals `T1` and `T2` double up to a cap; the model keeps the counters and
  lets a running timer expire at any moment.
- Memory that is not read again (leaked packets) is left out. `commit` etc. stand for the
  object the pointer refers to; `sentMessage` for the bytes it points into.
- `chooseAlgorithm` looks a type up with `std::string::find` over the concatenated types
  of the packet; the model compares whole types, so a match across the border of two
  types is not represented. Hello has arrays for seven types of a kind; the lists of the
  runs are within that (`HelloFits`).
- `HviRank` orders the hvi of the Commits as they are received, as `memcmp` does; it is
  injective in the runs. A damaged hvi is one of an identity that does not run (`Carol`,
  `Dave`), which the runs rank below and above the two that do.
- A damaged datagram has another value in one field. Some fields are acted on before the
  MAC over them can be checked: the version and the types of a Hello, the algorithms and
  the hvi of a Commit. For these `Garbled` puts a value of `OtherVersions`, `OtherTypes`,
  `OtherAlgorithms` or another identity into the packet. In all other fields the value only
  matters to the MAC or digest over it, and a mark stands for it.
- `NetworkManager` reads and writes `actualSignal` without a lock. `processSignal` compares
  it up to five times, and a signal set between two comparisons may match none of them.
  The model reads it once: a signal that is overwritten is always one of the timer's
  (`OutcomeNotLost`, `RestartNotLost`), and an event without effect is followed by the
  event of the signal that came between.
- In `NetworkManager` an acknowledgement reaches its receiver in the session it was sent
  in, or not at all; the run `late` looks at the other case. Threads of an application
  that has left do nothing.
- An Error is counted up to `ReportCap = 2` calls of `agreementFailed`, to keep repeated
  Errors finite.

### Behaviour worth knowing

- `compareVersions` takes two versions for the same by their first three characters, but
  erases by comparing all of them.
- A HelloACK, Conf2ACK or ErrorACK is not bound to a session by any MAC, and the last two
  are not parsed either.
- Accepting an Error leaves the timer running; the timeout is ignored in `Initial`.
- After `maxResend` resends the engine stops without a callback.
- Contention is decided by the hvi as received, before the MAC of the Commit can be checked
  (`stateengine.cpp:642`, `packetcommit.cpp:132`): one damaged hvi can make both endpoints
  yield. Both then wait in `WaitDHPart2`, which resends nothing (`BothYielded`).
- A Hello is acted on before its MAC can be checked. One damaged version can leave an
  endpoint in `ReceivedHelloAck` with all its versions erased, or with one its peer, settled
  on the damaged version, does not speak and does not look at Hellos any more
  (`HelloStalled`). In neither case is a user told.
- A timer may run on in a state that ignores its timeout; then nothing is resent, and no
  timer is running after it.
- `ReceivedHelloAck` does not look for an empty version list as `SentHello` does; the next
  Hello makes `versions.at(0)` throw out of `processEvent`, with the critical section
  entered (`VersionsExhausted`).
- `keyAgreed` gives the user the Initiator's and the Responder's keys, but not the role,
  which contention may have changed. `getSrtpMaterial`, which nothing calls, stores the
  SAS in the `Zrtp` object and leaves that of the material it returns empty.
- If `zrtpEnded` overwrites a `stopTimer` that has not been read, both events read
  `zrtpEnded`: `restarted` keeps the restart single, but `counter` counts twice, and an
  application with `--testing 2` may end after its first key agreement.
- The Responder of the last key agreement leaves after its Conf2ACK; if that is lost, the
  Initiator repeats its Confirm2 to nobody and never ends.
- `endZrtp` waits for the threads of its list; `main` processes events once more before
  the manager is deleted, and may start threads that outlive it.
- Seven types of each of the five kinds make a Hello of 228 bytes; `data` has 220.
- `parse` compares four bytes of the 16-bit `identifier`, and the constructors take
  `sizeof(Header)` for 16: both are right only because `Integers.h` makes `uint16_t` 32
  bits wide.
- `RepeatHelloAck` includes the branch of `handleSentHelloAck` and `handleWaitCommit` that
  parses a second Hello. `VersionsSettled` shows that it cannot be reached; it would delete
  the Hello `sentMessage` points into.

## 3. Runs

| Run | Asks | Distinct states |
|---|---|---|
| `demo` | Do two endpoints, with one Initiator or two, ever fail, end as two Initiators, wait without a timer or go on with different Hellos, if datagrams are delayed, reordered and repeated and their unsorted version lists take two rounds of Hellos? Do they implement `KeyAgreement` and `VersionExchange`, and does the destructor find all packets after an agreement? | 9480 |
| `damaged` | A copy of one datagram is damaged, by any mark or by another version, list of types, algorithm or hvi, and delivered besides its original, between two users of the demo with one Initiator or two: keys, outcomes, and the packets used and resent. | 253067 |
| `refused` | A Responder that lacks the cipher, contention, and a malformed datagram. | 34588 |
| `stale` | No common version, and a HelloACK and Hellos of an earlier session. | 13647 |
| `told` | Losses and one damaged datagram, with one Initiator or two: both users are told the same or the session ends in `BothYielded` or `HelloStalled`, if no more is lost or damaged than the timers resend; and they are told of the agreement if nothing is damaged (liveness). | 142232 |
| `exchange` | Safety and liveness of `VersionExchange` for every pair of lists of 1 to 3 of the versions 1.10, 1.20, 1.25, 1.30. | 25624 |
| `types` | `TypeNegotiation` for every pair of lists of 1 to 3 of the five rated types, and the Hellos that carry them. | 59105 |
| `restarts` | One or two key agreements of both applications: lost signals, the timer, threads of an old session, `Rendezvous`. | 1152415 |
| `proceeds` | Do the applications get to the next key agreement, and end (liveness)? | 51480 |
| `mutex` | *Violated:* a malformed Error leaves the critical section entered (`stateengine.cpp:75`). | |
| `erased` | *Violated:* "erase all versions higher then peerVersion" (`zrtp.cpp:962`). | |
| `late` | *Violated:* "key agreement has ended successfuly" (`ZrtpCallback.h:67`). | |

**Bounds, and why they are enough.** A session has two endpoints in the code too. With
`Duplicating`, a datagram once sent may arrive at any later time and any number of times;
a loss is then the case that it never does, so `MaxLost = 0` leaves nothing out of the
safety runs. The liveness runs have no duplication: a datagram is processed once or lost,
so that a loss can only be made good by a resend. `MaxResend1` and `MaxResend2` are 0 to 2 instead of 20 and 10: a resend puts
the same datagram into `net` again, so with `Duplicating` resends add states of the
counters only, and a bound of 1 reaches both sides of the test in `timerNext`. `MaxExpired`
bounds the raised timeouts waiting for a thread. `MaxDamaged = 1` (2 in `mutex`, where the
damaged datagram is an Error that another damage has caused) tries every mark on every
packet of the handshake. `OtherVersions` has a version below all of the users', one of their
own and one above; `OtherTypes` a list with no type in common and one with only the other
one; `OtherAlgorithms` a type the peer supports and a name it does not; the two identities
that do not run have an hvi below and one above those that do. Lists of three versions are the shortest on which the skipping
loop, an unsorted list and the prefix comparison meet. `Mark` lists the damages that make a
check of the code answer differently.

For the applications, `MaxThreads = 1` is one datagram or timeout at a time between its
arrival and its processing; the interleavings that matter are of one thread's signals with
the event loop, the Restarter and the other application, and all of these are possible.
`MaxSignals = 3` in `restarts` is one more than a call of `processEvent` sets, so that
signals of two calls meet in the mailbox; `proceeds` takes 2, and `MaxLost = 0`, for the
sake of the liveness check. Two key agreements have one restart between them, and both
applications can be one ahead in it. The proofs of section 4 need none of these bounds.

**Fairness.** `FairSpec` is weak fairness of the start, of a raised timeout's and of a
datagram's processing, and of the timer: threads are scheduled and a started `QTimer` goes
off. Nothing is said of losses, damage or which datagram comes first. Without losses
bounded by `MaxLost` nothing could be promised, since the resends end; `OutcomeReached`
supposes that what is lost or damaged is no more than the resends of `MaxResend1`, for a
damaged datagram replaces its original here. `Patient` (in the
liveness runs) adds that a timer outlasts the round trip: it expires when nothing is in
flight. Without it the resends can all be used up before the first answer arrives. In
`exchange`, weak fairness of `Receive` stands for T1 resending a Hello.

`NetworkManager`'s `FairSpec` is weak fairness of the main thread, of a thread and its
signals, and of the Restarter: the operating system schedules threads, the event loop
processes its events, `QSystemSemaphore::acquire` returns. `Leave` has strong fairness, for
the last call of `processEvents` returns although timeouts may still disable it. The
datagrams have strong fairness, and so have the steps that end the Hello exchange and that
take the DHPart2: that is
what `told` shows of the library, that the handshake goes on as long as resends are not
used up (`givenUp`, which `SessionsGoOn` and `BothLeave` except).

Runs use `CHECK_DEADLOCK FALSE`: a session ends, or waits for ever once its resends are
used up.

**Findings.** (1) `processEvent` returns from a malformed Error without
`leaveCriticalSection`; the endpoint, and with it `restartZrtp` and `endZrtp` that wait for
its threads, hang. (2) `compareVersions` does not erase all higher versions, contrary to
its comment; the proofs show that the exchange keeps the common versions and the runs
that it still settles, at the price of another round. (3) A Conf2ACK that the Responder
repeated at the end of one session is taken for the answer to the Confirm2 of the next:
the Initiator reports success although its Confirm2 has not been accepted, and may not be.

## 4. Proofs

All theorems hold for every value of the constants that satisfies the named assumptions:
any identities, users and lists and, in `EngineProofs` and what extends it, any network
(`Leftover` is an arbitrary set of packets in flight at the start, loss, damage and
duplication are arbitrary). They assume no fairness. Every invariant of the passing runs
is proved, and every refinement and action property.

- **NegotiationProofs** – what the operators of `Negotiation` return: the highest kept
  version is an entry of the list and none is higher; `compareVersions` only erases, and
  only versions above the peer's; `chooseAlgorithm` returns a type of both lists, and the
  same from either side (`FasterTypeCommutes`, `ChoiceCommutes`); the prefix of a version
  follows its order (`PrefixOrder`).
- **EngineProofs** – `TypeCorrect`, `PacketsAreReady`, `ResendsAreLive`,
  `VersionsStaySettled`. None is inductive alone: a packet that is built is typed only if
  the packets it is built from are there (`PacketsReady`), a timeout puts `sentMessage`
  on the network, which is typed only if it is alive (`ResendLive`), and `ResendLive`
  needs `VersionsSettled` to exclude the branch of `RepeatHelloAck` that deletes the
  Hello being resent. `IInv` is their conjunction; there is one lemma per action, or per
  group of actions that change the same things.
- **SessionProofs** – what two users may rely on. `StepSummary` states once what a step
  may do to the state, the keys, the callbacks and the packets in flight; it is proved from
  the handlers, and the invariants from it.
  - `DestructorIsSafe`: which packets each state has set (`PacketsThere`), for the two
    roles and for an endpoint that changed its role.
  - `TimersCover`: by the actions, since it depends on the order of the two timers' calls.
  - `KeysAgreed`, from `SecretInv`: keys are derived once; a Confirm in flight that opens
    was made by the other endpoint from the keys it still has; so who has accepted a
    Confirm has its sender's keys.
  - `OutcomeIsNotSplit`, `EndsSuccessfully`, from `OutcomeInv`: a Conf2ACK is in flight
    only if the Responder is `Secured`, an Error only if its sender is failing for good,
    and a `Secured` endpoint's peer has confirmed, so that it has no check left to fail.
  - `KeyAgreementImplemented`: every step is one of `KeyAgreement` or a stutter.
- **ExchangeProofs** – what two endpoints decide alone, with a summary of its own
  (`ExchangeSummary`).
  - `OneIsInitiator`, from `RoleInv`: a Commit in flight is from an endpoint that is still
    Initiator or yielded by the lower hvi, and a DHPart1 from a Responder.
  - `HellosAgreed`, from `HelloInv`: a Hello in flight shows no lower version than its
    sender has now, and who has settled holds the one its peer will settle with.
  - `TypeKept` (an action property), from that and `ChoiceCommutes`.
  - `HighestCommonVersion`: no Hello is ever below a common version, so none is erased.
  - `VersionExchangeImplemented`: every step is one of `VersionExchange` or a stutter;
    what is proved of that module for all lists is so carried over to the engine.
- **NoFailureProofs** – `NoEndpointFails`. That nobody fails is not inductive at all: it
  depends on every check of every handler. `WellInv` says that there is only one Commit,
  one DHPart and one set of keys an endpoint can make once it has settled (`TheCommit`,
  `TheKeys`), that all an endpoint has kept is of that kind (`KeepsTrack`, `GoesOnWell`),
  and so is all that is in flight to it, however old (`Expected`): no check can turn a
  packet down. `CriticalSectionIsLeft` states of the finding of the run `mutex` that there
  is no other: Errors of a wrong length and empty version lists are the only ways out of
  `processEvent` that leave the critical section entered.
- **VersionExchangeProofs** – `CommonVersionsKept`, `SettledVersionsAgree`,
  `SettledVersionHighest`, from the invariant that offers only go down, that no offer is
  below what is kept and that who has settled did so on an offer of its peer.
- **NetworkManagerProofs** – `OutcomesReach`, `RestartsReach`, `ThreadsStay`,
  `RendezvousImplemented`, `TimersFollow`, and `TypeCorrect`, for any number of key
  agreements, threads, signals and losses. The invariant says for one application how the
  mailbox, the signals still to be set and the Restarter follow from how its key agreement
  stands (`Constructed`, `Mail`, `Restarting`, `Outcome`), and for the two of them how far
  apart they can be (`Together`, `ThreadsHere`) and that a semaphore holds what one has
  released and the other not acquired (`Semaphores`: the counts follow from the session
  and `restarted`). An outcome is not lost because it is the last signal of its session
  but for the Restarter's, which comes only after the outcome was read; nobody runs ahead
  because the Restarter acquires what the peer releases once per agreement. `TimersInv`,
  on top of it, relates the last signal to what the engine asked for: a cancelled timer is
  off, and an activated one is running or its timeout is to come, as long as the handler is
  one that resends (a state that ignores timeouts may be left with neither).
- **TypeNegotiationProofs** – `TypeChoiceShared`, `CommitsAcceptable`, from the invariant
  that a chosen type is what the two lists determine, and in both. `HelloIsReadBack`: a
  list stays where it was written when more is appended (`Appended`, `StaysWritten`), the
  counts come through their halves of a byte (`CountsComeThrough`), so each loop of
  `parse` starts where the corresponding one of `toBytes` did (`ListsComeThrough`).

**Hypotheses.** A theorem on two endpoints needs to know what an earlier session has left
in flight, and about the users; it says so. The run `demo` satisfies all of these.

| Hypothesis | Says | Why, and what is without it |
|---|---|---|
| `EarlierSecrets` | No Confirm of an earlier session is made with a key of this one | Key pairs are generated anew for each `Zrtp` object |
| `NoLateEnd` | No Conf2ACK and no Error of an earlier session is left | Neither is bound to a session; the run `late` shows what a Conf2ACK does |
| `EarlierSessionOver` | No earlier session is left both a Hello and a Commit or DHPart1 | With both, an endpoint would go on with an object that is gone |
| `NoEarlierHello` | No Hello of an earlier session is left | It is taken for the peer's: the run `stale` |
| `OnlyAcksLeft` | Only HelloACKs and Conf2ACKs of an earlier session are left | Other packets of it are turned down with an Error |
| `SomeInitiator` | One user at least starts as Initiator | Two Responders wait for ever (`stateengine.cpp:294`) |
| `HviDiffer` | The hvi of the two Commits differ | Digests of different data; with equal ones both yield (`packetcommit.cpp:132`) |
| `TypesRated` | `chooseFasterType` knows the users' types | Unknown types are all rated 0 (`zrtp.cpp:414`) |
| `SomeCommonVersion` | The two users have a version in common | Otherwise they fail, or empty their lists |
| `CompatibleUsers` | Each user supports what a Commit asks for, and they have a key agreement type in common | Otherwise they fail, as they should: the run `refused` |
| `Undamaged` | The network damages nothing | A damaged packet is turned down with an Error |
| `BodiesKept` | No datagram arrives with another value in a field (no mark `badBody`): of `OneIsInitiator`, `HellosAgreed`, `TypeKept`, `HighestCommonVersion`, `VersionExchangeImplemented` and `CriticalSectionIsLeft` only | Version, types and hvi are acted on before a MAC is checked: with a damaged one both endpoints may yield, or settle on different Hellos (`OutcomeReached`) |
| `ErrorsWhole` | Errors arrive in the length they were sent in | The run `mutex` |
| `NothingForgotten` | `Duplicating`, and nothing is removed from the network | The mapping reads what has been offered off the packets in flight; it says nothing against losses, since a packet need not be delivered |

The theorems of `EngineProofs` and `SessionProofs` hold with all damages of the model,
those of fields that are acted on included.

**Only model-checked:** the liveness properties `OutcomeReached`, `AgreementReached`,
`CommonVersionFound`, `SessionsGoOn` and `BothLeave`: they rest on fairness, which the
prover does not reason about. That the exceptions in the table are needed is shown by the
runs named there, and otherwise by reading the code.

## 5. Not modelled

- The composition of `NetworkManager` with the whole session: the application sees the
  engine through its contract, and one session's late datagrams in the next are the runs
  `stale` and `late`. Two complete sessions in a row are beyond TLC's reach.
- Equal hvi of two Commits, two endpoints started as Responders and two applications with
  the same role (they wait for ever).
- Deleting a `Zrtp` object after a failed session, or a manager whose threads still run.
- The byte layout of the packets of fixed length: a list of copies in the same order in
  `toBytes` and `parse`, without a condition.
- Base32, files and console output, the parser of the command line.

## 6. Plan

Done: the modules of section 2, in the order Negotiation, ZrtpPackets, StateEngine,
ZrtpSession with KeyAgreement, VersionExchange, TypeNegotiation, NetworkManager with
Rendezvous, PacketHello, KeyDerivation, and the proofs.

Every invariant, action property and refinement the runs check is proved. Left:

1. `TypeNegotiation` refined by the session: `TypeKept` and `HellosAgreed` have what it
   takes, a mapping of `chosen` and `answer` is to be stated and run.
2. Weaker hypotheses on what an earlier session leaves: `NoEarlierHello` could give way to
   Hellos that show no version of this one's lists.
3. Bounds of the liveness arguments as safety, for instance that a version list can be
   lowered only as often as it has entries.
