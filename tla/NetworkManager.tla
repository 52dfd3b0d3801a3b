--------------------------- MODULE NetworkManager ---------------------------
(***************************************************************************)
(* The demo application around the library, for two applications that run  *)
(* testCap key agreements one after the other (User_ZRTP): the event loop  *)
(* of main, the one-place mailbox actualSignal, the timer, the threads for *)
(* datagrams and timeouts, and the restart that two system semaphores      *)
(* synchronise.                                                            *)
(*                                                                         *)
(* Of the library only the contract is used that ZrtpSession is checked    *)
(* against (KeyAgreement): when a key agreement may end, how, and which    *)
(* callbacks a call of processEvent makes, in which order.                 *)
(***************************************************************************)
EXTENDS Integers, Sequences, FiniteSets

CONSTANTS
    App, Peer,
    MyRole,     \* --user
    TestCaps,   \* the values of --testing to look at
    MaxThreads, \* bound: message and timeout threads running at once
    MaxSignals, \* bound: signals of an application not processed yet
    MaxLost     \* bound: acknowledgements lost in a behaviour

ASSUME PeerAssumption ==
    /\ Peer \in [App -> App]
    /\ \A n \in App : Peer[n] # n /\ Peer[Peer[n]] = n
    /\ \A n, m \in App : m \in {n, Peer[n]}
ASSUME RoleAssumption ==
    /\ MyRole \in [App -> {"Initiator", "Responder"}]
    /\ \A n \in App : MyRole[Peer[n]] # MyRole[n]
ASSUME TestCapAssumption == TestCaps \subseteq [App -> Nat]
ASSUME BoundAssumption ==
    MaxThreads \in Nat /\ MaxSignals \in Nat /\ MaxLost \in Nat

VARIABLES
    mainAt,         \* where the main thread is
    testCap, counter, restarted, ended,
    actualSignal,   \* the mailbox
    signals,        \* events signalReceived posted and not processed
    timer,          \* is the QTimer running?
    threads,        \* ZrtpMessage and ZrtpTimeout threads before processEvent
    posting,        \* signals the thread in the critical section has to set
    restarter,      \* the Restarter thread
    semaphore,
    session,        \* how many Zrtp objects have been constructed
    engine,         \* how the key agreement of the Zrtp object stands
    handler,        \* what the handler of its state does about the timer
    wanted,         \* what the engine last asked of the timer
    acked,          \* is the Conf2ACK or ErrorACK it waits for on its way?
    lost            \* acknowledgements lost so far

mainVars   == <<mainAt, testCap, counter, restarted, ended>>
signalVars == <<actualSignal, signals, timer>>
threadVars == <<threads, posting, restarter>>
engineVars == <<session, engine, handler, wanted, acked, lost>>
vars == <<mainVars, signalVars, threadVars, semaphore, engineVars>>

Signal == {"none", "activateTimer", "stopTimer", "zrtpEnded", "zrtpFailed", "zrtpRestart"}

(* What a thread brings to processEvent: a packet of the handshake, the    *)
(* Confirm2 that ends it for the Responder, an Error, the acknowledgement  *)
(* that ends it for the other side, a timeout.                             *)
Kind == {"message", "confirm2", "error", "ack", "timeout"}

Thread == [kind : Kind, session : Nat]

(* A handler that waits with a timer sends again at a timeout; the others  *)
(* ignore it, though the timer may be running: ReceivedHelloAck, WaitCommit *)
(* and WaitConfirm2 wait, WaitDHPart2 cancels it for any packet.           *)
Handler == {"resends", "waits", "cancels"}

(* semaphoreA is released by the Initiator and acquired by the Responder. *)
Semaphore == {"semaphoreA", "semaphoreB"}
Mine(n)   == IF MyRole[n] = "Initiator" THEN "semaphoreA" ELSE "semaphoreB"
Theirs(n) == IF MyRole[n] = "Initiator" THEN "semaphoreB" ELSE "semaphoreA"

Init ==
    /\ mainAt = [n \in App |-> "constructing"]
    /\ testCap \in TestCaps
    /\ counter = [n \in App |-> 0]
    /\ restarted = [n \in App |-> FALSE]
    /\ ended = [n \in App |-> FALSE]
    /\ actualSignal = [n \in App |-> "none"]
    /\ signals = [n \in App |-> 0]
    /\ timer = [n \in App |-> FALSE]
    /\ threads = [n \in App |-> {}]
    /\ posting = [n \in App |-> <<>>]
    /\ restarter = [n \in App |-> "none"]
    /\ semaphore = [s \in Semaphore |-> 0]
    /\ session = [n \in App |-> 0]
    /\ engine = [n \in App |-> "none"]
    /\ handler = [n \in App |-> "waits"]
    /\ wanted = [n \in App |-> "stopped"]
    /\ acked = [n \in App |-> FALSE]
    /\ lost = 0

-----------------------------------------------------------------------------
(* The main thread. *)

Goto(n, place) == mainAt' = [mainAt EXCEPT ![n] = place]

(* Events are processed in the loop of main; those left in the queue still *)
(* are, by the last call of processEvents, when ended has been set.        *)
InLoop(n) == mainAt[n] = "loop"

Release(s) == semaphore' = [semaphore EXCEPT ![s] = @ + 1]

(* Mutant: the semaphore is not waited for. *)
AcquireAnyway(s) == semaphore' = [semaphore EXCEPT ![s] = @ - 1]

Acquire(s) ==
    /\ semaphore[s] > 0
    /\ semaphore' = [semaphore EXCEPT ![s] = @ - 1]

(* The constructor of Zrtp.  Its Start event calls activateTimer from the  *)
(* main thread: that signal is processed at once, not queued.              *)
NewZrtp(n) ==
    /\ session' = [session EXCEPT ![n] = @ + 1]
    /\ engine' = [engine EXCEPT ![n] = "hello"]
    /\ handler' = [handler EXCEPT ![n] = "resends"]
    /\ wanted' = [wanted EXCEPT ![n] = "running"]
    /\ acked' = [acked EXCEPT ![n] = FALSE]
    /\ actualSignal' = [actualSignal EXCEPT ![n] = "activateTimer"]
    /\ timer' = [timer EXCEPT ![n] = TRUE]
    /\ UNCHANGED <<signals, lost>>

(* The constructor: both programs have been started. *)
ReleaseFirst(n) ==
    /\ mainAt[n] = "constructing"
    /\ Release(Mine(n))
    /\ Goto(n, "waiting")
    /\ UNCHANGED <<testCap, counter, restarted, ended, signalVars, threadVars, engineVars>>

AcquireFirst(n) ==
    /\ mainAt[n] = "waiting"
    /\ Acquire(Theirs(n))
    /\ NewZrtp(n)
    /\ Goto(n, "loop")
    /\ UNCHANGED <<testCap, counter, restarted, ended, threadVars>>

(* processSignal reads the mailbox when the event is processed: perhaps    *)
(* another signal than the one the event was posted for.                   *)
TakeSignal(n, signal) ==
    /\ InLoop(n)
    /\ signals[n] > 0
    /\ actualSignal[n] = signal
    /\ signals' = [signals EXCEPT ![n] = @ - 1]
    /\ actualSignal' = actualSignal

ProcessTimerSignal(n) ==
    /\ \/ TakeSignal(n, "activateTimer") /\ timer' = [timer EXCEPT ![n] = TRUE]
       \/ TakeSignal(n, "stopTimer") /\ timer' = [timer EXCEPT ![n] = FALSE]
    /\ UNCHANGED <<mainVars, threadVars, semaphore, engineVars>>

CountSession(n) == counter' = [counter EXCEPT ![n] = @ + 1]

(* zrtpEnded: the last key agreement. *)
ProcessLastEnded(n) ==
    /\ TakeSignal(n, "zrtpEnded")
    /\ CountSession(n)
    /\ counter'[n] = testCap[n]
    /\ Goto(n, "ending")
    /\ UNCHANGED <<testCap, restarted, ended, timer, threadVars, semaphore, engineVars>>

(* Mutant: the other application is not told. *)
RestartUntold(n) ==
    /\ TakeSignal(n, "zrtpEnded")
    /\ CountSession(n)
    /\ counter'[n] # testCap[n]
    /\ ~ restarted[n]
    /\ restarted' = [restarted EXCEPT ![n] = TRUE]
    /\ restarter' = [restarter EXCEPT ![n] = "acquiring"]
    /\ UNCHANGED <<mainAt, testCap, ended, timer, threads, posting, semaphore, engineVars>>

(* zrtpEnded: tell the other application, and wait for it in a thread. *)
ProcessEnded(n) ==
    /\ TakeSignal(n, "zrtpEnded")
    /\ CountSession(n)
    /\ counter'[n] # testCap[n]
    /\ ~ restarted[n]
    /\ Release(Mine(n))
    /\ restarted' = [restarted EXCEPT ![n] = TRUE]
    /\ restarter' = [restarter EXCEPT ![n] = "acquiring"]
    /\ UNCHANGED <<mainAt, testCap, ended, timer, threads, posting, engineVars>>

(* zrtpEnded, read again for the event of a signal it has overwritten. *)
ProcessEndedAgain(n) ==
    /\ TakeSignal(n, "zrtpEnded")
    /\ CountSession(n)
    /\ counter'[n] # testCap[n]
    /\ restarted[n]
    /\ UNCHANGED <<mainAt, testCap, restarted, ended, timer, threadVars, semaphore,
                   engineVars>>

(* zrtpFailed, zrtpRestart: endZrtp and restartZrtp begin to wait. *)
ProcessFailed(n) ==
    /\ TakeSignal(n, "zrtpFailed")
    /\ Goto(n, "ending")
    /\ UNCHANGED <<testCap, counter, restarted, ended, timer, threadVars, semaphore,
                   engineVars>>

(* Bound: one that comes after the end is left to be, main is leaving.     *)
ProcessRestart(n) ==
    /\ ~ ended[n]
    /\ TakeSignal(n, "zrtpRestart")
    /\ Goto(n, "restarting")
    /\ UNCHANGED <<testCap, counter, restarted, ended, timer, threadVars, semaphore,
                   engineVars>>

ProcessSignal(n) ==
    \/ ProcessTimerSignal(n)
    \/ ProcessLastEnded(n)
    \/ ProcessEnded(n)
    \/ ProcessEndedAgain(n)
    \/ ProcessFailed(n)
    \/ ProcessRestart(n)

(* Every thread of the list has ended. *)
ThreadsEnded(n) == threads[n] = {} /\ posting[n] = <<>> /\ restarter[n] = "none"

(* Mutant: only the Restarter is waited for. *)
RestartZrtpAtOnce(n) ==
    /\ mainAt[n] = "restarting"
    /\ restarter[n] = "none"
    /\ restarted' = [restarted EXCEPT ![n] = FALSE]
    /\ NewZrtp(n)
    /\ Goto(n, "loop")
    /\ UNCHANGED <<testCap, counter, ended, threadVars, semaphore>>

RestartZrtp(n) ==
    /\ mainAt[n] = "restarting"
    /\ ThreadsEnded(n)
    /\ restarted' = [restarted EXCEPT ![n] = FALSE]
    /\ NewZrtp(n)
    /\ Goto(n, "loop")
    /\ UNCHANGED <<testCap, counter, ended, threadVars, semaphore>>

EndZrtp(n) ==
    /\ mainAt[n] = "ending"
    /\ ThreadsEnded(n)
    /\ ended' = [ended EXCEPT ![n] = TRUE]
    /\ Goto(n, "loop")
    /\ UNCHANGED <<testCap, counter, restarted, signalVars, threadVars, semaphore,
                   engineVars>>

(* The loop of main finds ended set; the manager is deleted. *)
Leave(n) ==
    /\ InLoop(n)
    /\ ended[n]
    /\ Goto(n, "left")
    /\ UNCHANGED <<testCap, counter, restarted, ended, signalVars, threadVars,
                   semaphore, engineVars>>

-----------------------------------------------------------------------------
(* Threads. *)

Alive(n) == mainAt[n] # "left"

StartThread(n, kind) ==
    LET thread == [kind |-> kind, session |-> session[n]] IN
    /\ InLoop(n)
    /\ thread \notin threads[n]
    /\ Cardinality(threads[n]) < MaxThreads
    /\ signals[n] + Len(posting[n]) + 2 * Cardinality(threads[n]) + 2 <= MaxSignals
    /\ threads' = [threads EXCEPT ![n] = @ \cup {thread}]
    /\ UNCHANGED <<posting, restarter>>

InSession(n) == session[n] = session[Peer[n]] /\ session[n] > 0

(* The packets that may be on their way to n. *)
Sent(n, kind) ==
    \/ kind = "message"
    \/ kind = "confirm2" /\ MyRole[n] = "Responder" /\ InSession(n)
                         /\ engine[Peer[n]] = "keys" /\ handler[n] = "waits"
    \/ kind = "error" /\ InSession(n) /\ engine[Peer[n]] = "failing"
    \/ kind = "ack" /\ acked[n]

(* readyRead: a thread for the datagram. *)
ProcessPendingDatagram(n, kind) ==
    /\ Sent(n, kind)
    /\ StartThread(n, kind)
    /\ UNCHANGED <<mainVars, signalVars, semaphore, engineVars>>

(* The QTimer goes off: single shot. *)
CreateTimeoutThread(n) ==
    /\ timer[n]
    /\ timer' = [timer EXCEPT ![n] = FALSE]
    /\ StartThread(n, "timeout")
    /\ UNCHANGED <<mainVars, actualSignal, signals, semaphore, engineVars>>

(* A thread enters the critical section: `posts` are the signals processEvent *)
(* will set before it leaves it.                                           *)
Enter(n, thread, posts) ==
    /\ Alive(n)
    /\ thread \in threads[n]
    /\ posting[n] = <<>>
    /\ threads' = [threads EXCEPT ![n] = @ \ {thread}]
    /\ posting' = [posting EXCEPT ![n] = posts]
    /\ UNCHANGED <<mainVars, signalVars, restarter, semaphore, session>>

(* Mutant: a signal that is still to be read is kept. *)
PostIfRead(n) ==
    /\ Alive(n)
    /\ posting[n] # <<>>
    /\ actualSignal' = [actualSignal EXCEPT
                          ![n] = IF signals[n] > 0 THEN @ ELSE Head(posting[n])]
    /\ signals' = [signals EXCEPT ![n] = @ + 1]
    /\ posting' = [posting EXCEPT ![n] = Tail(@)]
    /\ UNCHANGED <<mainVars, timer, threads, restarter, semaphore, engineVars>>

(* setActualSignal by that thread, from the user's callbacks. *)
Post(n) ==
    /\ Alive(n)
    /\ posting[n] # <<>>
    /\ actualSignal' = [actualSignal EXCEPT ![n] = Head(posting[n])]
    /\ signals' = [signals EXCEPT ![n] = @ + 1]
    /\ posting' = [posting EXCEPT ![n] = Tail(@)]
    /\ UNCHANGED <<mainVars, timer, threads, restarter, semaphore, engineVars>>

(* Mutant: the semaphores are swapped. *)
RestarterAcquiresMine(n) ==
    /\ Alive(n)
    /\ restarter[n] = "acquiring"
    /\ Acquire(Mine(n))
    /\ restarter' = [restarter EXCEPT ![n] = "signalling"]
    /\ UNCHANGED <<mainVars, signalVars, threads, posting, engineVars>>

(* Restarter::run *)
RestarterAcquires(n) ==
    /\ Alive(n)
    /\ restarter[n] = "acquiring"
    /\ Acquire(Theirs(n))
    /\ restarter' = [restarter EXCEPT ![n] = "signalling"]
    /\ UNCHANGED <<mainVars, signalVars, threads, posting, engineVars>>

RestarterSignals(n) ==
    /\ Alive(n)
    /\ restarter[n] = "signalling"
    /\ restarter' = [restarter EXCEPT ![n] = "none"]
    /\ actualSignal' = [actualSignal EXCEPT ![n] = "zrtpRestart"]
    /\ signals' = [signals EXCEPT ![n] = @ + 1]
    /\ UNCHANGED <<mainVars, timer, threads, posting, semaphore, engineVars>>

-----------------------------------------------------------------------------
(* processEvent, as far as the application notices it. *)

Running(n) == engine[n] \in {"hello", "keys"}

Ask(n, request) == wanted' = [wanted EXCEPT ![n] = request]

HandleAs(n, how) == handler' = [handler EXCEPT ![n] = how]

(* What a handler that goes on asks of the timer, in this order. *)
TimerPosts == {<<>>, <<"activateTimer">>, <<"stopTimer">>, <<"stopTimer", "activateTimer">>}

Asked(n, posts) ==
    IF posts = <<>> THEN wanted[n]
    ELSE IF posts[Len(posts)] = "activateTimer" THEN "running" ELSE "stopped"

(* The answer is on its way to n, or lost.  Bound: it does not arrive in a *)
(* later key agreement than it was meant for (ZrtpSession looks at that).  *)
Acknowledge(n) ==
    \/ acked' = [acked EXCEPT ![n] = InSession(n)] /\ lost' = lost
    \/ lost < MaxLost /\ lost' = lost + 1 /\ acked' = acked

(* A packet of the Hello exchange.  Only a HelloACK stops the timer for    *)
(* good: ReceivedHelloAck or WaitCommit follow.  They start one again for  *)
(* another version, and do not look at its timeout.                        *)
ExchangeHello(n, thread) ==
    /\ thread.kind = "message"
    /\ engine[n] = "hello"
    /\ \E posts \in TimerPosts :
          /\ posts = <<"stopTimer">> => handler[n] = "resends"
          /\ Enter(n, thread, posts)
          /\ Ask(n, Asked(n, posts))
          /\ handler' = IF posts = <<"stopTimer">>
                          THEN [handler EXCEPT ![n] = "waits"] ELSE handler
    /\ UNCHANGED <<engine, acked, lost>>

(* The packet that ends it for the Initiator, a HelloACK or the Hello that *)
(* ReceivedHelloAck waits for: the Commit is sent, with a timer.           *)
SendCommit(n, thread) ==
    /\ thread.kind = "message"
    /\ engine[n] = "hello"
    /\ MyRole[n] = "Initiator"
    /\ InSession(n)
    /\ Enter(n, thread, IF handler[n] = "resends" THEN <<"stopTimer", "activateTimer">>
                                                  ELSE <<"activateTimer">>)
    /\ engine' = [engine EXCEPT ![n] = "keys"]
    /\ Ask(n, "running")
    /\ HandleAs(n, "resends")
    /\ UNCHANGED <<acked, lost>>

(* ... and for the Responder, that Commit, in SentHelloAck too: its timer  *)
(* is left to run, WaitDHPart2 ignores the timeout.                        *)
AcceptCommit(n, thread) ==
    /\ thread.kind = "message"
    /\ engine[n] = "hello"
    /\ MyRole[n] = "Responder"
    /\ InSession(n)
    /\ engine[Peer[n]] # "hello"
    /\ Enter(n, thread, <<>>)
    /\ engine' = [engine EXCEPT ![n] = "keys"]
    /\ HandleAs(n, "cancels")
    /\ UNCHANGED <<wanted, acked, lost>>

(* DHPart2: WaitConfirm2 has no timer. *)
AcceptDHPart2(n, thread) ==
    /\ thread.kind = "message"
    /\ engine[n] = "keys"
    /\ InSession(n)
    /\ handler[n] = "cancels"
    /\ Enter(n, thread, <<"stopTimer">>)
    /\ Ask(n, "stopped")
    /\ HandleAs(n, "waits")
    /\ UNCHANGED <<engine, acked, lost>>

(* DHPart1 and Confirm1: the Initiator answers, and waits anew. *)
AnswerKeys(n, thread) ==
    /\ thread.kind = "message"
    /\ engine[n] = "keys"
    /\ engine[Peer[n]] = "keys"
    /\ MyRole[n] = "Initiator"
    /\ Enter(n, thread, <<"stopTimer", "activateTimer">>)
    /\ Ask(n, "running")
    /\ UNCHANGED <<engine, handler, acked, lost>>

(* A packet that is turned down: sendError, and a timer for the ErrorACK.  *)
(* By KeyAgreement not when the peer has agreed.                           *)
Reject(n, thread) ==
    /\ thread.kind = "message"
    /\ Running(n)
    /\ InSession(n)
    /\ engine[Peer[n]] # "agreed"
    /\ \/ handler[n] # "cancels" /\ Enter(n, thread, <<"activateTimer">>)
       \/ handler[n] # "waits" /\ Enter(n, thread, <<"stopTimer", "activateTimer">>)
    /\ engine' = [engine EXCEPT ![n] = "failing"]
    /\ Ask(n, "running")
    /\ HandleAs(n, "resends")
    /\ UNCHANGED <<acked, lost>>

(* An Error, at any time: ErrorACK and agreementFailed, every time. *)
AcceptError(n, thread) ==
    /\ thread.kind = "error"
    /\ Enter(n, thread, <<"zrtpFailed">>)
    /\ engine' = [engine EXCEPT ![n] = "failed"]
    /\ HandleAs(n, "waits")
    /\ Acknowledge(Peer[n])
    /\ UNCHANGED wanted

(* Mutant: the failure is not reported. *)
FailUnreported(n, thread) ==
    /\ thread.kind = "ack"
    /\ engine[n] = "failing"
    /\ Enter(n, thread, <<"stopTimer">>)
    /\ engine' = [engine EXCEPT ![n] = "failed"]
    /\ HandleAs(n, "waits")
    /\ Ask(n, "stopped")
    /\ acked' = [acked EXCEPT ![n] = FALSE]
    /\ lost' = lost

AcceptErrorAck(n, thread) ==
    /\ thread.kind = "ack"
    /\ engine[n] = "failing"
    /\ Enter(n, thread, <<"stopTimer", "zrtpFailed">>)
    /\ engine' = [engine EXCEPT ![n] = "failed"]
    /\ HandleAs(n, "waits")
    /\ Ask(n, "stopped")
    /\ acked' = [acked EXCEPT ![n] = FALSE]
    /\ lost' = lost

(* WaitConfirm2: keyAgreed, when the Conf2ACK has been sent. *)
AcceptConfirm2(n, thread) ==
    /\ thread.kind = "confirm2"
    /\ engine[n] = "keys"
    /\ handler[n] = "waits"
    /\ engine[Peer[n]] = "keys"
    /\ Enter(n, thread, <<"zrtpEnded">>)
    /\ engine' = [engine EXCEPT ![n] = "agreed"]
    /\ HandleAs(n, "waits")
    /\ Acknowledge(Peer[n])
    /\ UNCHANGED wanted

(* Secured: the Conf2ACK is sent again. *)
RepeatConf2Ack(n, thread) ==
    /\ thread.kind = "confirm2"
    /\ engine[n] = "agreed"
    /\ Enter(n, thread, <<>>)
    /\ Acknowledge(Peer[n])
    /\ UNCHANGED <<engine, handler, wanted>>

(* Mutant: the outcome is reported before the timer is stopped. *)
ReportThenStop(n, thread) ==
    /\ thread.kind = "ack"
    /\ engine[n] = "keys"
    /\ Enter(n, thread, <<"zrtpEnded", "stopTimer">>)
    /\ engine' = [engine EXCEPT ![n] = "agreed"]
    /\ HandleAs(n, "waits")
    /\ Ask(n, "stopped")
    /\ acked' = [acked EXCEPT ![n] = FALSE]
    /\ lost' = lost

(* WaitConf2Ack: the timer is stopped, then keyAgreed. *)
AcceptConf2Ack(n, thread) ==
    /\ thread.kind = "ack"
    /\ engine[n] = "keys"
    /\ Enter(n, thread, <<"stopTimer", "zrtpEnded">>)
    /\ engine' = [engine EXCEPT ![n] = "agreed"]
    /\ HandleAs(n, "waits")
    /\ Ask(n, "stopped")
    /\ acked' = [acked EXCEPT ![n] = FALSE]
    /\ lost' = lost

(* timerNext: the packet is sent again, or the resends are used up. *)
Resend(n, thread) ==
    /\ thread.kind = "timeout"
    /\ Running(n) \/ engine[n] = "failing"
    /\ handler[n] = "resends"
    /\ \/ wanted[n] # "givenUp" /\ Enter(n, thread, <<"activateTimer">>) /\ Ask(n, "running")
       \/ Enter(n, thread, <<"stopTimer">>) /\ Ask(n, "givenUp")
    /\ UNCHANGED <<engine, handler, acked, lost>>

(* Mutant: the states that ignore a timeout stop the timer for it. *)
StopOnTimeout(n, thread) ==
    /\ thread.kind = "timeout"
    /\ handler[n] # "resends"
    /\ Enter(n, thread, <<"stopTimer">>)
    /\ UNCHANGED <<engine, handler, wanted, acked, lost>>

(* A timeout nobody waits for, of a timer that was not stopped in time or  *)
(* not at all: nothing is asked of the timer.                              *)
IgnoreTimeout(n, thread) ==
    /\ thread.kind = "timeout"
    /\ handler[n] # "resends"
    /\ Enter(n, thread, <<>>)
    /\ UNCHANGED <<engine, handler, wanted, acked, lost>>

(* A packet the handler of the state does not look at, or knows already:   *)
(* WaitDHPart2 has cancelled the timer before it looks.                    *)
IgnoreMessage(n, thread) ==
    /\ \/ thread.kind = "message" /\ engine[n] # "hello"
       \/ thread.kind = "confirm2" /\ engine[n] # "agreed"
            /\ ~ (engine[n] = "keys" /\ handler[n] = "waits" /\ engine[Peer[n]] = "keys")
       \/ thread.kind = "ack" /\ engine[n] \notin {"keys", "failing"}
    /\ IF engine[n] = "keys" /\ handler[n] = "cancels"
         THEN Enter(n, thread, <<"stopTimer">>) /\ Ask(n, "stopped")
         ELSE Enter(n, thread, <<>>) /\ UNCHANGED wanted
    /\ UNCHANGED <<engine, handler, acked, lost>>

ProcessEvent(n) ==
    \E thread \in threads[n] :
       \/ ExchangeHello(n, thread)
       \/ SendCommit(n, thread)
       \/ AcceptCommit(n, thread)
       \/ AcceptDHPart2(n, thread)
       \/ AnswerKeys(n, thread)
       \/ Reject(n, thread)
       \/ AcceptError(n, thread)
       \/ AcceptErrorAck(n, thread)
       \/ AcceptConfirm2(n, thread)
       \/ RepeatConf2Ack(n, thread)
       \/ AcceptConf2Ack(n, thread)
       \/ Resend(n, thread)
       \/ IgnoreTimeout(n, thread)
       \/ IgnoreMessage(n, thread)

-----------------------------------------------------------------------------
MainThread(n) ==
    \/ ReleaseFirst(n)
    \/ AcquireFirst(n)
    \/ ProcessSignal(n)
    \/ RestartZrtp(n)
    \/ EndZrtp(n)
    \/ Leave(n)

Restart(n) == RestarterAcquires(n) \/ RestarterSignals(n)

Next ==
    \E n \in App :
       \/ MainThread(n)
       \/ \E kind \in Kind \ {"timeout"} : ProcessPendingDatagram(n, kind)
       \/ CreateTimeoutThread(n)
       \/ ProcessEvent(n)
       \/ Post(n)
       \/ Restart(n)

Spec == Init /\ [][Next]_vars

(* Threads and the event loop are scheduled; the last call of processEvents *)
(* returns.  For the datagrams this is the contract of ZrtpSession: the    *)
(* handshake goes on if no resends are used up, and an answer that is on   *)
(* its way arrives.                                                        *)
Fairness ==
    \A n \in App :
       /\ WF_vars(MainThread(n)) /\ SF_vars(Leave(n))
       /\ WF_vars(ProcessEvent(n) \/ Post(n)) /\ WF_vars(Restart(n))
       /\ SF_vars(\E kind \in {"confirm2", "error", "ack"} : ProcessPendingDatagram(n, kind))
       /\ SF_vars(ProcessPendingDatagram(n, "message"))
       /\ SF_vars(\E thread \in threads[n] :
                     SendCommit(n, thread) \/ AcceptCommit(n, thread) \/ AcceptDHPart2(n, thread))

FairSpec == Spec /\ Fairness

-----------------------------------------------------------------------------
(* Properties. *)

TypeOK ==
    /\ mainAt \in [App -> {"constructing", "waiting", "loop", "restarting", "ending", "left"}]
    /\ testCap \in TestCaps
    /\ counter \in [App -> Nat]
    /\ restarted \in [App -> BOOLEAN] /\ ended \in [App -> BOOLEAN]
    /\ actualSignal \in [App -> Signal]
    /\ signals \in [App -> Nat]
    /\ timer \in [App -> BOOLEAN]
    /\ threads \in [App -> SUBSET Thread]
    /\ posting \in [App -> Seq(Signal)]
    /\ restarter \in [App -> {"none", "acquiring", "signalling"}]
    /\ semaphore \in [Semaphore -> Nat]
    /\ session \in [App -> Nat]
    /\ engine \in [App -> {"none", "hello", "keys", "failing", "agreed", "failed"}]
    /\ handler \in [App -> Handler]
    /\ wanted \in [App -> {"running", "stopped", "givenUp"}]
    /\ acked \in [App -> BOOLEAN]
    /\ lost \in Nat

(* The signal is still to be set, or will be read by an event to come. *)
Pending(n, signal) ==
    \/ \E i \in DOMAIN posting[n] : posting[n][i] = signal
    \/ actualSignal[n] = signal /\ signals[n] > 0

Stopping(n) == mainAt[n] = "ending" \/ ended[n]

(* actualSignal holds one signal for many threads: what is overwritten is  *)
(* never the outcome of a key agreement.                                   *)
OutcomeNotLost ==
    \A n \in App :
       /\ engine[n] = "agreed" => Pending(n, "zrtpEnded") \/ restarted[n] \/ Stopping(n)
       /\ engine[n] = "failed" => Pending(n, "zrtpFailed") \/ Stopping(n)

(* ... nor the restart the Restarter asks for. *)
RestartNotLost ==
    \A n \in App : restarted[n] /\ restarter[n] = "none" =>
       Pending(n, "zrtpRestart") \/ mainAt[n] = "restarting" \/ Stopping(n)

(* When all signals are processed, a timer the engine has cancelled last   *)
(* is off, and one it has activated last in a state that sends again is    *)
(* running or its timeout is on the way, whichever signals were            *)
(* overwritten.  A state that ignores timeouts may be left without either. *)
TimerFollows ==
    \A n \in App :
       (InLoop(n) /\ signals[n] = 0 /\ posting[n] = <<>> /\ (Running(n) \/ engine[n] = "failing")) =>
          /\ wanted[n] # "running" => ~ timer[n]
          /\ wanted[n] = "running" /\ handler[n] = "resends" =>
               timer[n] \/ \E thread \in threads[n] : thread.kind = "timeout"

(* restartZrtp waits for the threads: none of them gets to call the Zrtp   *)
(* object of a later key agreement than the one it was started in.         *)
ThreadsOfSession ==
    \A n \in App : \A thread \in threads[n] : thread.session = session[n]

(* The applications go from one key agreement to the next together, as     *)
(* Rendezvous says.                                                        *)
arrived ==
    [n \in App |-> IF session[n] = 0 THEN mainAt[n] # "constructing"
                                    ELSE engine[n] = "agreed"]

Meeting == INSTANCE Rendezvous WITH round <- session, done <- arrived

ImplementsRendezvous == Meeting!Spec

(* An application whose key agreement has ended well gets to the next one, *)
(* unless one of the two stops or the other has given up.                  *)
SessionsGoOn ==
    \A n \in App : engine[n] = "agreed" ~>
       (engine[n] = "hello" \/ ended[n] \/ ended[Peer[n]] \/ wanted[Peer[n]] = "givenUp")

(* If one key agreement is asked for, both programs end after it, whether  *)
(* it succeeds or fails, as long as no acknowledgement is lost and the     *)
(* resends are not used up: main gets out of the waiting in endZrtp.       *)
BothLeave ==
    /\ \A n \in App : testCap[n] = 1
    /\ [](lost = 0 /\ \A n \in App : wanted[n] # "givenUp")
    => <>(\A n \in App : mainAt[n] = "left")

=============================================================================
