------------------------ MODULE NetworkManagerProofs ------------------------
(***************************************************************************)
(* Proofs about NetworkManager, for any number of key agreements, threads  *)
(* and lost acknowledgements: the inductive invariant, the properties that *)
(* follow from it, and that the applications implement Rendezvous.         *)
(***************************************************************************)
EXTENDS NetworkManager, TLAPS

TimerSignal == {"activateTimer", "stopTimer"}

(* The constructor is over when there is a Zrtp object. *)
Constructed(n) ==
    /\ session[n] = 0 <=> mainAt[n] \in {"constructing", "waiting"}
    /\ session[n] = 0 <=> engine[n] = "none"
    /\ session[n] = 0 => /\ threads[n] = {} /\ posting[n] = <<>>
                         /\ restarter[n] = "none" /\ ~ restarted[n] /\ ~ acked[n]
                         /\ actualSignal[n] = "none"

(* What is in the mailbox, and still to be put there, is decided by how    *)
(* the key agreement stands: its outcome comes last, and once.             *)
Mail(n) ==
    /\ engine[n] \in {"hello", "keys", "failing"} =>
         posting[n] \in TimerPosts /\ actualSignal[n] \in TimerSignal
    /\ engine[n] = "agreed" =>
         /\ posting[n] \in {<<>>, <<"zrtpEnded">>, <<"stopTimer", "zrtpEnded">>}
         /\ IF posting[n] = <<>> THEN actualSignal[n] \in {"zrtpEnded", "zrtpRestart"}
                                 ELSE actualSignal[n] \in TimerSignal
    /\ engine[n] = "failed" =>
         /\ posting[n] \in {<<>>, <<"zrtpFailed">>, <<"stopTimer", "zrtpFailed">>}
         /\ posting[n] = <<>> => actualSignal[n] = "zrtpFailed"
         /\ posting[n] = <<"stopTimer", "zrtpFailed">> => actualSignal[n] \in TimerSignal
         /\ actualSignal[n] \in TimerSignal \cup {"zrtpFailed"}

(* Only a key agreement that ended well is restarted, when its Restarter   *)
(* has got the semaphore.                                                  *)
Restarting(n) ==
    /\ restarted[n] => engine[n] = "agreed" /\ posting[n] = <<>>
    /\ restarter[n] # "none" => restarted[n]
    /\ actualSignal[n] = "zrtpRestart" <=> restarted[n] /\ restarter[n] = "none"
    /\ mainAt[n] = "restarting" => restarted[n] /\ restarter[n] = "none"

Outcome(n) ==
    /\ engine[n] = "agreed" =>
         \/ posting[n] # <<>>
         \/ actualSignal[n] = "zrtpEnded" /\ signals[n] > 0
         \/ restarted[n] \/ Stopping(n)
    /\ engine[n] = "failed" =>
         \/ posting[n] # <<>>
         \/ actualSignal[n] = "zrtpFailed" /\ signals[n] > 0
         \/ Stopping(n)
    /\ actualSignal[n] = "zrtpRestart" =>
         signals[n] > 0 \/ mainAt[n] = "restarting" \/ Stopping(n)

HasThread(n, kind) == \E thread \in threads[n] : thread.kind = kind

(* How the two key agreements stand to each other. *)
Together(n) ==
    /\ engine[n] \in {"keys", "failing", "agreed", "failed"} =>
         session[Peer[n]] >= session[n]
    /\ engine[n] = "agreed" =>
         \/ session[Peer[n]] = session[n] /\ engine[Peer[n]] \in {"keys", "agreed"}
         \/ session[Peer[n]] = session[n] + 1
    /\ acked[n] \/ HasThread(n, "ack") =>
         /\ engine[n] \in {"keys", "failing", "agreed", "failed"}
         /\ engine[n] = "keys" =>
              session[Peer[n]] = session[n] /\ engine[Peer[n]] = "agreed"
    /\ HasThread(n, "error") =>
         session[Peer[n]] = session[n] /\ engine[Peer[n]] \in {"failing", "failed"}

(* How often n has released its semaphore, and acquired the other. *)
Released(n) ==
    IF mainAt[n] = "constructing" THEN 0
    ELSE IF mainAt[n] = "waiting" \/ restarted[n] THEN session[n] + 1
    ELSE session[n]

Acquired(n) ==
    IF restarted[n] /\ restarter[n] # "acquiring" THEN session[n] + 1 ELSE session[n]

Semaphores(n) == semaphore[Mine(n)] + Acquired(Peer[n]) = Released(n)

LocalInv(n) == Constructed(n) /\ Mail(n) /\ Restarting(n) /\ Outcome(n)

ThreadsHere(n) == \A thread \in threads[n] : thread.session = session[n]

PairInv(n) == ThreadsHere(n) /\ Together(n) /\ Semaphores(n)

IInv == TypeOK /\ \A n \in App : LocalInv(n) /\ PairInv(n)

-----------------------------------------------------------------------------
(* Types. *)

LEMMA PeerFacts ==
    ASSUME NEW n \in App
    PROVE  /\ Peer[n] \in App /\ Peer[n] # n /\ Peer[Peer[n]] = n
           /\ \A m \in App : m \in {n, Peer[n]}
           /\ Mine(n) \in Semaphore /\ Theirs(n) = Mine(Peer[n])
           /\ Mine(n) # Theirs(n) /\ Theirs(n) \in Semaphore
           /\ Semaphore = {Mine(n), Theirs(n)}
BY PeerAssumption, RoleAssumption DEF Mine, Theirs, Semaphore

LEMMA InitType == Init => TypeOK
BY DEF Init, TypeOK, Signal, Semaphore, Handler

LEMMA MainThreadType ==
    ASSUME TypeOK, NEW n \in App, MainThread(n)
    PROVE  TypeOK'
<1>1. CASE ReleaseFirst(n)
  BY <1>1, PeerFacts DEF TypeOK, ReleaseFirst, Release, Goto, signalVars, threadVars, engineVars
<1>2. CASE AcquireFirst(n)
  BY <1>2, PeerFacts DEF TypeOK, AcquireFirst, Acquire, NewZrtp, Goto, Signal, Handler,
                          threadVars
<1>3. CASE ProcessSignal(n)
  <2>1. CASE ProcessTimerSignal(n)
    <3>1. timer' \in [App -> BOOLEAN]
      BY <2>1 DEF TypeOK, ProcessTimerSignal
    <3>2. TakeSignal(n, "activateTimer") \/ TakeSignal(n, "stopTimer")
      BY <2>1 DEF ProcessTimerSignal
    <3>4. signals' \in [App -> Nat] /\ actualSignal' = actualSignal
      <4>1. signals \in [App -> Nat]  BY DEF TypeOK
      <4>2. QED  BY <3>2, <4>1 DEF TakeSignal
    <3>3. QED  BY <2>1, <3>1, <3>4
               DEF TypeOK, ProcessTimerSignal, mainVars, threadVars, engineVars
  <2>2. CASE ProcessLastEnded(n)
    BY <2>2 DEF TypeOK, ProcessLastEnded, TakeSignal, CountSession, Goto, threadVars, engineVars
  <2>3. CASE ProcessEnded(n)
    BY <2>3, PeerFacts DEF TypeOK, ProcessEnded, TakeSignal, CountSession, Release, engineVars
  <2>4. CASE ProcessEndedAgain(n)
    BY <2>4 DEF TypeOK, ProcessEndedAgain, TakeSignal, CountSession, threadVars, engineVars
  <2>5. CASE ProcessFailed(n)
    BY <2>5 DEF TypeOK, ProcessFailed, TakeSignal, Goto, threadVars, engineVars
  <2>6. CASE ProcessRestart(n)
    BY <2>6 DEF TypeOK, ProcessRestart, TakeSignal, Goto, threadVars, engineVars
  <2>7. QED  BY <1>3, <2>1, <2>2, <2>3, <2>4, <2>5, <2>6 DEF ProcessSignal
<1>4. CASE RestartZrtp(n)
  BY <1>4 DEF TypeOK, RestartZrtp, NewZrtp, Goto, Signal, Handler, threadVars
<1>5. CASE EndZrtp(n)
  BY <1>5 DEF TypeOK, EndZrtp, Goto, signalVars, threadVars, engineVars
<1>6. CASE Leave(n)
  BY <1>6 DEF TypeOK, Leave, Goto, signalVars, threadVars, engineVars
<1>7. QED  BY <1>1, <1>2, <1>3, <1>4, <1>5, <1>6 DEF MainThread

LEMMA StartThreadType ==
    ASSUME TypeOK, NEW n \in App, NEW kind \in Kind, StartThread(n, kind)
    PROVE  /\ threads' \in [App -> SUBSET Thread]
           /\ posting' = posting /\ restarter' = restarter
BY DEF TypeOK, StartThread, Thread

LEMMA EnterType ==
    ASSUME TypeOK, NEW n \in App, NEW thread, NEW posts \in Seq(Signal), Enter(n, thread, posts),
           engine' \in [App -> {"none", "hello", "keys", "failing", "agreed", "failed"}],
           handler' \in [App -> Handler], wanted' \in [App -> {"running", "stopped", "givenUp"}],
           acked' \in [App -> BOOLEAN], lost' \in Nat
    PROVE  TypeOK'
BY DEF TypeOK, Enter, mainVars, signalVars

LEMMA PostsTyped ==
    /\ TimerPosts \subseteq Seq(Signal)
    /\ <<>> \in Seq(Signal) /\ <<"activateTimer">> \in Seq(Signal)
    /\ <<"stopTimer">> \in Seq(Signal) /\ <<"stopTimer", "activateTimer">> \in Seq(Signal)
    /\ <<"zrtpEnded">> \in Seq(Signal) /\ <<"stopTimer", "zrtpEnded">> \in Seq(Signal)
    /\ <<"zrtpFailed">> \in Seq(Signal) /\ <<"stopTimer", "zrtpFailed">> \in Seq(Signal)
BY DEF TimerPosts, Signal

LEMMA AskedTyped ==
    ASSUME TypeOK, NEW n \in App, NEW posts \in TimerPosts
    PROVE  Asked(n, posts) \in {"running", "stopped", "givenUp"}
BY DEF TypeOK, Asked

LEMMA AcknowledgeType ==
    ASSUME TypeOK, NEW n \in App, Acknowledge(n)
    PROVE  acked' \in [App -> BOOLEAN] /\ lost' \in Nat
<1>1. InSession(n) \in BOOLEAN  BY DEF InSession
<1>2. CASE acked' = [acked EXCEPT ![n] = InSession(n)] /\ lost' = lost
  BY <1>1, <1>2 DEF TypeOK
<1>3. CASE acked' = acked /\ lost' = lost + 1
  BY <1>3 DEF TypeOK
<1>4. QED  BY <1>2, <1>3 DEF Acknowledge

LEMMA ProcessEventType ==
    ASSUME TypeOK, NEW n \in App, ProcessEvent(n)
    PROVE  TypeOK'
<1>1. PICK thread \in threads[n] :
        \/ ExchangeHello(n, thread) \/ SendCommit(n, thread) \/ AcceptCommit(n, thread)
        \/ AcceptDHPart2(n, thread) \/ AnswerKeys(n, thread)
        \/ Reject(n, thread) \/ AcceptError(n, thread) \/ AcceptErrorAck(n, thread)
        \/ AcceptConfirm2(n, thread) \/ RepeatConf2Ack(n, thread) \/ AcceptConf2Ack(n, thread)
        \/ Resend(n, thread) \/ IgnoreTimeout(n, thread) \/ IgnoreMessage(n, thread)
  BY DEF ProcessEvent
<1> USE PostsTyped
<1>0. /\ \A how \in Handler : HandleAs(n, how) => handler' \in [App -> Handler]
      /\ {"resends", "waits", "cancels"} \subseteq Handler
  BY DEF TypeOK, HandleAs, Handler
<1>2. CASE ExchangeHello(n, thread)
  <2>1. PICK posts \in TimerPosts :
          /\ Enter(n, thread, posts) /\ Ask(n, Asked(n, posts))
          /\ handler' = IF posts = <<"stopTimer">>
                          THEN [handler EXCEPT ![n] = "waits"] ELSE handler
    BY <1>2 DEF ExchangeHello
  <2>2. handler' \in [App -> Handler]  BY <2>1 DEF TypeOK, Handler
  <2>3. QED  BY <1>2, <2>1, <2>2, EnterType, AskedTyped DEF TypeOK, ExchangeHello, Ask
<1>3. CASE SendCommit(n, thread)
  <2>1. PICK posts \in TimerPosts : Enter(n, thread, posts)
    BY <1>3 DEF SendCommit, TimerPosts
  <2>2. QED  BY <1>0, <1>3, <2>1, EnterType DEF TypeOK, SendCommit, Ask
<1>15. CASE AcceptCommit(n, thread)
  BY <1>0, <1>15, EnterType DEF TypeOK, AcceptCommit
<1>16. CASE AcceptDHPart2(n, thread)
  BY <1>0, <1>16, EnterType DEF TypeOK, AcceptDHPart2, Ask
<1>4. CASE AnswerKeys(n, thread)
  BY <1>4, EnterType DEF TypeOK, AnswerKeys, Ask
<1>5. CASE Reject(n, thread)
  <2>1. PICK posts \in {<<"activateTimer">>, <<"stopTimer", "activateTimer">>} :
          Enter(n, thread, posts)
    BY <1>5 DEF Reject
  <2>2. QED  BY <1>0, <1>5, <2>1, EnterType DEF TypeOK, Reject, Ask
<1>6. CASE AcceptError(n, thread)
  <2>1. acked' \in [App -> BOOLEAN] /\ lost' \in Nat
    BY <1>6, PeerFacts, AcknowledgeType DEF AcceptError
  <2>2. QED  BY <1>0, <1>6, <2>1, EnterType DEF TypeOK, AcceptError
<1>7. CASE AcceptErrorAck(n, thread)
  BY <1>0, <1>7, EnterType DEF TypeOK, AcceptErrorAck, Ask
<1>8. CASE AcceptConfirm2(n, thread)
  <2>1. acked' \in [App -> BOOLEAN] /\ lost' \in Nat
    BY <1>8, PeerFacts, AcknowledgeType DEF AcceptConfirm2
  <2>2. QED  BY <1>0, <1>8, <2>1, EnterType DEF TypeOK, AcceptConfirm2
<1>9. CASE RepeatConf2Ack(n, thread)
  <2>1. acked' \in [App -> BOOLEAN] /\ lost' \in Nat
    BY <1>9, PeerFacts, AcknowledgeType DEF RepeatConf2Ack
  <2>2. QED  BY <1>9, <2>1, EnterType DEF TypeOK, RepeatConf2Ack
<1>10. CASE AcceptConf2Ack(n, thread)
  BY <1>0, <1>10, EnterType DEF TypeOK, AcceptConf2Ack, Ask
<1>11. CASE Resend(n, thread)
  <2>1. wanted' \in [App -> {"running", "stopped", "givenUp"}]
    BY <1>11 DEF TypeOK, Resend, Ask
  <2>2. PICK posts \in {<<"activateTimer">>, <<"stopTimer">>} : Enter(n, thread, posts)
    BY <1>11 DEF Resend
  <2>3. QED  BY <1>11, <2>1, <2>2, EnterType DEF TypeOK, Resend
<1>12. CASE IgnoreTimeout(n, thread)
  BY <1>12, EnterType DEF TypeOK, IgnoreTimeout
<1>13. CASE IgnoreMessage(n, thread)
  <2>1. wanted' \in [App -> {"running", "stopped", "givenUp"}]
    BY <1>13 DEF TypeOK, IgnoreMessage, Ask
  <2>2. PICK posts \in {<<>>, <<"stopTimer">>} : Enter(n, thread, posts)
    BY <1>13 DEF IgnoreMessage
  <2>3. QED  BY <1>13, <2>1, <2>2, EnterType DEF TypeOK, IgnoreMessage
<1>14. QED  BY <1>1, <1>2, <1>3, <1>4, <1>5, <1>6, <1>7, <1>8, <1>9, <1>10, <1>11, <1>12,
               <1>13, <1>15, <1>16

LEMMA NextType == TypeOK /\ [Next]_vars => TypeOK'
<1> SUFFICES ASSUME TypeOK, [Next]_vars PROVE TypeOK'
  OBVIOUS
<1>1. CASE UNCHANGED vars
  BY <1>1 DEF TypeOK, vars, mainVars, signalVars, threadVars, engineVars
<1>2. ASSUME NEW n \in App, MainThread(n) PROVE TypeOK'
  BY <1>2, MainThreadType
<1>3. ASSUME NEW n \in App, NEW kind \in Kind, ProcessPendingDatagram(n, kind) PROVE TypeOK'
  BY <1>3, StartThreadType
  DEF TypeOK, ProcessPendingDatagram, mainVars, signalVars, engineVars
<1>4. ASSUME NEW n \in App, CreateTimeoutThread(n) PROVE TypeOK'
  <2>1. "timeout" \in Kind  BY DEF Kind
  <2>2. QED  BY <1>4, <2>1, StartThreadType
             DEF TypeOK, CreateTimeoutThread, mainVars, engineVars
<1>5. ASSUME NEW n \in App, ProcessEvent(n) PROVE TypeOK'
  BY <1>5, ProcessEventType
<1>6. ASSUME NEW n \in App, Post(n) PROVE TypeOK'
  <2>1. posting[n] \in Seq(Signal) /\ posting[n] # <<>>  BY <1>6 DEF TypeOK, Post
  <2>2. Head(posting[n]) \in Signal /\ Tail(posting[n]) \in Seq(Signal)  BY <2>1
  <2>3. QED  BY <1>6, <2>2 DEF TypeOK, Post, mainVars, engineVars
<1>7. ASSUME NEW n \in App, Restart(n) PROVE TypeOK'
  <2>1. CASE RestarterAcquires(n)
    BY <2>1, PeerFacts DEF TypeOK, RestarterAcquires, Acquire, mainVars, signalVars, engineVars
  <2>2. CASE RestarterSignals(n)
    BY <2>2 DEF TypeOK, RestarterSignals, Signal, mainVars, engineVars
  <2>3. QED  BY <1>7, <2>1, <2>2 DEF Restart
<1>8. QED  BY <1>1, <1>2, <1>3, <1>4, <1>5, <1>6, <1>7 DEF Next

(* Every variable has its type. *)
THEOREM TypeCorrect == Spec => []TypeOK
BY InitType, NextType, PTL DEF Spec

-----------------------------------------------------------------------------
(* What a step leaves alone. *)

LEMMA InitInv == Init => IInv
<1> SUFFICES ASSUME Init PROVE IInv
  OBVIOUS
<1>1. TypeOK  BY InitType
<1>2. ASSUME NEW n \in App PROVE LocalInv(n)
  BY DEF Init, LocalInv, Constructed, Mail, Restarting, Outcome
<1>3. ASSUME NEW n \in App PROVE PairInv(n)
  BY PeerFacts DEF Init, PairInv, ThreadsHere, Together, Semaphores, HasThread, Released, Acquired
<1>4. QED  BY <1>1, <1>2, <1>3 DEF IInv

(* Nothing of an application that the local invariants speak of changes. *)
SameAt(n) ==
    /\ mainAt'[n] = mainAt[n] /\ ended'[n] = ended[n] /\ restarted'[n] = restarted[n]
    /\ actualSignal'[n] = actualSignal[n] /\ signals'[n] = signals[n]
    /\ threads'[n] = threads[n] /\ posting'[n] = posting[n] /\ restarter'[n] = restarter[n]
    /\ session'[n] = session[n] /\ engine'[n] = engine[n]

LEMMA LocalFrame ==
    ASSUME NEW n \in App, LocalInv(n), SameAt(n), session[n] = 0 => ~ acked'[n]
    PROVE  LocalInv(n)'
<1>1. Constructed(n)'  BY DEF LocalInv, Constructed, SameAt
<1>2. Mail(n)'  BY DEF LocalInv, Mail, SameAt
<1>3. Restarting(n)'  BY DEF LocalInv, Restarting, SameAt
<1>4. Outcome(n)'  BY DEF LocalInv, Outcome, Stopping, SameAt
<1>5. QED  BY <1>1, <1>2, <1>3, <1>4 DEF LocalInv

(* A thread that starts or enters the critical section. *)
NoNews(n) ==
    \A thread \in threads'[n] :
       thread \in threads[n] \/ (thread.kind \notin {"ack", "error"} /\ thread.session = session[n])

LEMMA PairFrame ==
    ASSUME NEW n \in App, PairInv(n), NoNews(n), UNCHANGED <<session, engine, acked>>,
           semaphore'[Mine(n)] = semaphore[Mine(n)],
           Released(n)' = Released(n), Acquired(Peer[n])' = Acquired(Peer[n])
    PROVE  PairInv(n)'
<1>1. ThreadsHere(n)'  BY DEF PairInv, ThreadsHere, NoNews
<1>2. Together(n)'  BY DEF PairInv, Together, HasThread, NoNews
<1>3. Semaphores(n)'  BY DEF PairInv, Semaphores
<1>4. QED  BY <1>1, <1>2, <1>3 DEF PairInv

LEMMA BothInv ==
    ASSUME TypeOK', NEW n \in App, LocalInv(n)', LocalInv(Peer[n])', PairInv(n)', PairInv(Peer[n])'
    PROVE  IInv'
BY PeerFacts DEF IInv

(* A step of n that has to do with its own state only. *)
LEMMA QuietStep ==
    ASSUME IInv, TypeOK', NEW n \in App, LocalInv(n)', SameAt(Peer[n]), NoNews(n),
           UNCHANGED <<session, engine, acked, semaphore>>,
           Released(n)' = Released(n), Acquired(n)' = Acquired(n)
    PROVE  IInv'
<1>1. Peer[n] \in App /\ Peer[Peer[n]] = n  BY PeerFacts
<1>2. LocalInv(Peer[n])'
  <2>1. LocalInv(Peer[n])  BY <1>1 DEF IInv
  <2>2. session[Peer[n]] = 0 => ~ acked'[Peer[n]]  BY <2>1 DEF LocalInv, Constructed
  <2>3. QED  BY <1>1, <2>1, <2>2, LocalFrame
<1>3. Released(Peer[n])' = Released(Peer[n]) /\ Acquired(Peer[n])' = Acquired(Peer[n])
  BY DEF SameAt, Released, Acquired
<1>4. PairInv(n)'  BY <1>3, PairFrame DEF IInv
<1>5. PairInv(Peer[n])'
  <2>1. NoNews(Peer[n])  BY DEF NoNews, SameAt
  <2>2. PairInv(Peer[n])  BY <1>1 DEF IInv
  <2>3. QED  BY <1>1, <1>3, <2>1, <2>2, PairFrame
<1>6. QED  BY <1>2, <1>4, <1>5, BothInv

(* The signals a thread sets, one by one. *)
LEMMA PostFacts ==
    /\ \A a \in Signal :
         <<a>> # <<>> /\ Head(<<a>>) = a /\ Tail(<<a>>) = <<>>
    /\ \A a, b \in Signal :
         /\ <<a, b>> # <<>> /\ Head(<<a, b>>) = a /\ Tail(<<a, b>>) = <<b>>
         /\ \A c \in Signal : <<a, b>> # <<c>>
OBVIOUS

-----------------------------------------------------------------------------
(* The signals. *)

LEMMA TimerSignalInv ==
    ASSUME IInv, TypeOK', NEW n \in App, ProcessTimerSignal(n)
    PROVE  IInv'
<1>1. /\ mainAt[n] = "loop" /\ actualSignal[n] \in TimerSignal
      /\ actualSignal' = actualSignal
      /\ UNCHANGED <<mainVars, threadVars, semaphore, engineVars>>
  BY DEF ProcessTimerSignal, TakeSignal, InLoop, TimerSignal
<1>2. signals' = [signals EXCEPT ![n] = @ - 1]
  BY DEF ProcessTimerSignal, TakeSignal
<1>3. SameAt(Peer[n]) /\ NoNews(n)
  BY <1>1, <1>2, PeerFacts DEF SameAt, NoNews, TypeOK, mainVars, threadVars, engineVars
<1>4. LocalInv(n)'
  BY <1>1, <1>2 DEF IInv, LocalInv, Constructed, Mail, Restarting, Outcome, Stopping, TimerSignal,
                    mainVars, threadVars, engineVars
<1>5. QED
  BY <1>1, <1>3, <1>4, QuietStep DEF Released, Acquired, mainVars, threadVars, engineVars

LEMMA LastEndedInv ==
    ASSUME IInv, TypeOK', NEW n \in App, ProcessLastEnded(n) \/ ProcessFailed(n)
    PROVE  IInv'
<1>1. /\ mainAt[n] = "loop" /\ actualSignal[n] \in {"zrtpEnded", "zrtpFailed"}
      /\ actualSignal' = actualSignal /\ Goto(n, "ending")
      /\ signals' = [signals EXCEPT ![n] = @ - 1]
      /\ UNCHANGED <<restarted, ended, threadVars, semaphore, engineVars>>
  BY DEF ProcessLastEnded, ProcessFailed, TakeSignal, InLoop
<1>2. mainAt'[n] = "ending"  BY <1>1 DEF Goto, IInv, TypeOK
<1>3. SameAt(Peer[n]) /\ NoNews(n)
  BY <1>1, PeerFacts DEF SameAt, NoNews, IInv, TypeOK, Goto, threadVars, engineVars
<1>4. LocalInv(n)'
  BY <1>1, <1>2 DEF IInv, LocalInv, Constructed, Mail, Restarting, Outcome, Stopping, TimerSignal,
                    threadVars, engineVars
<1>5. QED
  BY <1>1, <1>2, <1>3, <1>4, QuietStep DEF Released, Acquired, threadVars, engineVars

LEMMA EndedAgainInv ==
    ASSUME IInv, TypeOK', NEW n \in App, ProcessEndedAgain(n)
    PROVE  IInv'
<1>1. /\ mainAt[n] = "loop" /\ actualSignal[n] = "zrtpEnded" /\ restarted[n]
      /\ actualSignal' = actualSignal
      /\ signals' = [signals EXCEPT ![n] = @ - 1]
      /\ UNCHANGED <<mainAt, restarted, ended, threadVars, semaphore, engineVars>>
  BY DEF ProcessEndedAgain, TakeSignal, InLoop
<1>2. SameAt(Peer[n]) /\ NoNews(n)
  BY <1>1, PeerFacts DEF SameAt, NoNews, IInv, TypeOK, threadVars, engineVars
<1>3. LocalInv(n)'
  BY <1>1 DEF IInv, LocalInv, Constructed, Mail, Restarting, Outcome, Stopping, TimerSignal,
              threadVars, engineVars
<1>4. QED
  BY <1>1, <1>2, <1>3, QuietStep DEF Released, Acquired, threadVars, engineVars

LEMMA ProcessRestartInv ==
    ASSUME IInv, TypeOK', NEW n \in App, ProcessRestart(n)
    PROVE  IInv'
<1>1. /\ mainAt[n] = "loop" /\ actualSignal[n] = "zrtpRestart"
      /\ actualSignal' = actualSignal /\ Goto(n, "restarting")
      /\ signals' = [signals EXCEPT ![n] = @ - 1]
      /\ UNCHANGED <<restarted, ended, threadVars, semaphore, engineVars>>
  BY DEF ProcessRestart, TakeSignal, InLoop
<1>2. mainAt'[n] = "restarting"  BY <1>1 DEF Goto, IInv, TypeOK
<1>3. SameAt(Peer[n]) /\ NoNews(n)
  BY <1>1, PeerFacts DEF SameAt, NoNews, IInv, TypeOK, Goto, threadVars, engineVars
<1>4. LocalInv(n)'
  BY <1>1, <1>2 DEF IInv, LocalInv, Constructed, Mail, Restarting, Outcome, Stopping, TimerSignal,
                    threadVars, engineVars
<1>5. QED
  BY <1>1, <1>2, <1>3, <1>4, QuietStep DEF Released, Acquired, threadVars, engineVars

LEMMA EndZrtpInv ==
    ASSUME IInv, TypeOK', NEW n \in App, EndZrtp(n) \/ Leave(n)
    PROVE  IInv'
<1>1. /\ mainAt[n] \in {"ending", "loop"} /\ mainAt'[n] \in {"loop", "left"}
      /\ ended'[n]
      /\ UNCHANGED <<restarted, signalVars, threadVars, semaphore, engineVars>>
  BY DEF IInv, TypeOK, EndZrtp, Leave, InLoop, Goto
<1>2. SameAt(Peer[n]) /\ NoNews(n)
  BY <1>1, PeerFacts DEF EndZrtp, Leave, SameAt, NoNews, IInv, TypeOK, Goto, signalVars, threadVars,
                         engineVars
<1>3. LocalInv(n)'
  BY <1>1 DEF IInv, LocalInv, Constructed, Mail, Restarting, Outcome, Stopping, TimerSignal,
              signalVars, threadVars, engineVars
<1>4. QED
  BY <1>1, <1>2, <1>3, QuietStep DEF Released, Acquired, threadVars, engineVars

LEMMA PostInv ==
    ASSUME IInv, TypeOK', NEW n \in App, Post(n)
    PROVE  IInv'
<1>1. /\ posting[n] # <<>> /\ posting'[n] = Tail(posting[n])
      /\ actualSignal'[n] = Head(posting[n]) /\ signals'[n] = signals[n] + 1
      /\ signals'[n] > 0
      /\ UNCHANGED <<mainVars, timer, threads, restarter, semaphore, engineVars>>
  BY DEF IInv, TypeOK, Post
<1>2. SameAt(Peer[n]) /\ NoNews(n)
  BY <1>1, PeerFacts DEF Post, SameAt, NoNews, IInv, TypeOK, mainVars, engineVars
<1>3. LocalInv(n)  BY DEF IInv
<1>4. Constructed(n)'
  BY <1>1, <1>3 DEF LocalInv, Constructed, mainVars, engineVars
<1>5. engine[n] \in {"hello", "keys", "failing", "agreed", "failed"}
  BY <1>1, <1>3 DEF LocalInv, Constructed, IInv, TypeOK
<1>6. engine'[n] = engine[n]  BY <1>1 DEF engineVars
<1>7. ASSUME engine[n] \in {"hello", "keys", "failing"} PROVE LocalInv(n)'
  <2>1. posting'[n] \in TimerPosts /\ actualSignal'[n] \in TimerSignal
    <3>1. posting[n] \in {<<"activateTimer">>, <<"stopTimer">>, <<"stopTimer", "activateTimer">>}
      BY <1>1, <1>3, <1>7 DEF LocalInv, Mail, TimerPosts
    <3>2. \/ posting'[n] = <<>> /\ actualSignal'[n] \in TimerSignal
          \/ posting'[n] = <<"activateTimer">> /\ actualSignal'[n] \in TimerSignal
      <4>1. CASE posting[n] = <<"activateTimer">>
        BY <1>1, <4>1 DEF TimerSignal
      <4>2. CASE posting[n] = <<"stopTimer">>
        BY <1>1, <4>2 DEF TimerSignal
      <4>3. CASE posting[n] = <<"stopTimer", "activateTimer">>
        BY <1>1, <4>3 DEF TimerSignal
      <4>4. QED  BY <3>1, <4>1, <4>2, <4>3
    <3>3. QED  BY <3>2 DEF TimerPosts
  <2>2. Mail(n)' /\ Restarting(n)' /\ Outcome(n)'
    BY <1>1, <1>3, <1>6, <1>7, <2>1
    DEF LocalInv, Mail, Restarting, Outcome, Stopping, TimerSignal, mainVars, engineVars
  <2>3. QED  BY <1>4, <2>2 DEF LocalInv
<1>8. ASSUME engine[n] = "agreed" PROVE LocalInv(n)'
  <2>1. \/ posting'[n] = <<"zrtpEnded">> /\ actualSignal'[n] \in TimerSignal
        \/ posting'[n] = <<>> /\ actualSignal'[n] = "zrtpEnded"
    <3>1. posting[n] \in {<<"zrtpEnded">>, <<"stopTimer", "zrtpEnded">>}
      BY <1>1, <1>3, <1>8 DEF LocalInv, Mail
    <3>2. CASE posting[n] = <<"zrtpEnded">>
      BY <1>1, <3>2
    <3>3. CASE posting[n] = <<"stopTimer", "zrtpEnded">>
      BY <1>1, <3>3 DEF TimerSignal
    <3>4. QED  BY <3>1, <3>2, <3>3
  <2>2. Mail(n)' /\ Restarting(n)' /\ Outcome(n)'
    <3>1. posting'[n] # <<"stopTimer", "zrtpEnded">>
      BY <2>1, PostFacts DEF Signal
    <3>2. QED
      BY <1>1, <1>3, <1>6, <1>8, <2>1, <3>1
      DEF LocalInv, Mail, Restarting, Outcome, Stopping, TimerSignal, mainVars, engineVars
  <2>3. QED  BY <1>4, <2>2 DEF LocalInv
<1>9. ASSUME engine[n] = "failed" PROVE LocalInv(n)'
  <2>1. \/ posting'[n] = <<"zrtpFailed">> /\ actualSignal'[n] \in TimerSignal
        \/ posting'[n] = <<>> /\ actualSignal'[n] = "zrtpFailed"
    <3>1. posting[n] \in {<<"zrtpFailed">>, <<"stopTimer", "zrtpFailed">>}
      BY <1>1, <1>3, <1>9 DEF LocalInv, Mail
    <3>2. CASE posting[n] = <<"zrtpFailed">>
      BY <1>1, <3>2
    <3>3. CASE posting[n] = <<"stopTimer", "zrtpFailed">>
      BY <1>1, <3>3 DEF TimerSignal
    <3>4. QED  BY <3>1, <3>2, <3>3
  <2>2. Mail(n)' /\ Restarting(n)' /\ Outcome(n)'
    <3>1. posting'[n] # <<"stopTimer", "zrtpFailed">>
      BY <2>1, PostFacts DEF Signal
    <3>2. QED
      BY <1>1, <1>3, <1>6, <1>9, <2>1, <3>1
      DEF LocalInv, Mail, Restarting, Outcome, Stopping, TimerSignal, mainVars, engineVars
  <2>3. QED  BY <1>4, <2>2 DEF LocalInv
<1>10. LocalInv(n)'  BY <1>5, <1>7, <1>8, <1>9
<1>11. QED
  BY <1>1, <1>2, <1>10, QuietStep DEF Released, Acquired, mainVars, engineVars

LEMMA RestarterSignalsInv ==
    ASSUME IInv, TypeOK', NEW n \in App, RestarterSignals(n)
    PROVE  IInv'
<1>1. /\ restarter[n] = "signalling" /\ restarter'[n] = "none"
      /\ actualSignal'[n] = "zrtpRestart" /\ signals'[n] = signals[n] + 1
      /\ signals'[n] > 0
      /\ UNCHANGED <<mainVars, timer, threads, posting, semaphore, engineVars>>
  BY DEF IInv, TypeOK, RestarterSignals
<1>2. SameAt(Peer[n]) /\ NoNews(n)
  BY <1>1, PeerFacts DEF RestarterSignals, SameAt, NoNews, IInv, TypeOK, mainVars, engineVars
<1>3. LocalInv(n)'
  BY <1>1 DEF IInv, LocalInv, Constructed, Mail, Restarting, Outcome, Stopping, TimerSignal,
              mainVars, engineVars
<1>4. QED
  BY <1>1, <1>2, <1>3, QuietStep DEF Released, Acquired, mainVars, engineVars

LEMMA CreateTimeoutThreadInv ==
    ASSUME IInv, TypeOK', NEW n \in App, CreateTimeoutThread(n)
    PROVE  IInv'
<1>1. /\ mainAt[n] = "loop"
      /\ threads' = [threads EXCEPT ![n] = @ \cup {[kind |-> "timeout", session |-> session[n]]}]
      /\ UNCHANGED <<mainVars, actualSignal, signals, posting, restarter, semaphore, engineVars>>
  BY DEF CreateTimeoutThread, StartThread, InLoop
<1>2. SameAt(Peer[n]) /\ NoNews(n)
  BY <1>1, PeerFacts DEF SameAt, NoNews, IInv, TypeOK, mainVars, engineVars
<1>3. LocalInv(n)'
  BY <1>1 DEF IInv, LocalInv, Constructed, Mail, Restarting, Outcome, Stopping, TimerSignal,
              mainVars, engineVars
<1>4. QED
  BY <1>1, <1>2, <1>3, QuietStep DEF Released, Acquired, mainVars, engineVars

LEMMA DatagramInv ==
    ASSUME IInv, TypeOK', NEW n \in App, NEW kind \in Kind \ {"timeout"},
           ProcessPendingDatagram(n, kind)
    PROVE  IInv'
<1>1. /\ mainAt[n] = "loop" /\ Sent(n, kind)
      /\ threads' = [threads EXCEPT ![n] = @ \cup {[kind |-> kind, session |-> session[n]]}]
      /\ UNCHANGED <<mainVars, signalVars, posting, restarter, semaphore, engineVars>>
  BY DEF ProcessPendingDatagram, StartThread, InLoop
<1>2. Peer[n] \in App /\ Peer[Peer[n]] = n /\ Peer[n] # n  BY PeerFacts
<1>3. SameAt(Peer[n])
  BY <1>1, <1>2 DEF SameAt, IInv, TypeOK, mainVars, signalVars, engineVars
<1>4. LocalInv(n)'
  BY <1>1 DEF IInv, LocalInv, Constructed, Mail, Restarting, Outcome, Stopping, TimerSignal,
              mainVars, signalVars, engineVars
<1>5. LocalInv(Peer[n])'
  BY <1>1, <1>2, <1>3, LocalFrame DEF IInv, LocalInv, Constructed, engineVars
<1>6. /\ Released(n)' = Released(n) /\ Acquired(n)' = Acquired(n)
      /\ Released(Peer[n])' = Released(Peer[n]) /\ Acquired(Peer[n])' = Acquired(Peer[n])
  BY <1>1 DEF Released, Acquired, mainVars, engineVars
<1>7. PairInv(Peer[n])'
  BY <1>1, <1>2, <1>3, <1>6, PairFrame DEF IInv, NoNews, SameAt, engineVars
<1>8. PairInv(n)'
  <2>1. \A thread \in threads'[n] :
           thread \in threads[n] \/ (thread.kind = kind /\ thread.session = session[n])
    BY <1>1 DEF IInv, TypeOK
  <2>2. ThreadsHere(n)'
    BY <1>1, <2>1 DEF IInv, PairInv, ThreadsHere, engineVars
  <2>3. kind = "ack" => acked[n]
    BY <1>1 DEF Sent
  <2>4. kind = "error" => session[Peer[n]] = session[n] /\ engine[Peer[n]] = "failing"
    BY <1>1 DEF Sent, InSession
  <2>5. Together(n)'
    BY <1>1, <2>1, <2>3, <2>4 DEF IInv, PairInv, Together, HasThread, engineVars
  <2>6. Semaphores(n)'
    BY <1>1, <1>6 DEF IInv, PairInv, Semaphores
  <2>7. QED  BY <2>2, <2>5, <2>6 DEF PairInv
<1>9. QED  BY <1>4, <1>5, <1>7, <1>8, BothInv

-----------------------------------------------------------------------------
(* The semaphores. *)

LEMMA CountTypes ==
    ASSUME TypeOK, NEW n \in App
    PROVE  /\ semaphore[Mine(n)] \in Nat /\ session[n] \in Nat
           /\ Acquired(n) \in Nat /\ Released(n) \in Nat
<1>1. session[n] \in Nat /\ semaphore[Mine(n)] \in Nat
  BY PeerFacts DEF TypeOK
<1>2. QED  BY <1>1 DEF Acquired, Released

(* A step of n that leaves the key agreements as they are. *)
LEMMA SemaphoreStep ==
    ASSUME IInv, TypeOK', NEW n \in App, LocalInv(n)', SameAt(Peer[n]), NoNews(n),
           UNCHANGED <<session, engine, acked>>,
           Semaphores(n)', Semaphores(Peer[n])'
    PROVE  IInv'
<1>1. Peer[n] \in App /\ Peer[Peer[n]] = n  BY PeerFacts
<1>2. LocalInv(Peer[n])'
  BY <1>1, LocalFrame DEF IInv, LocalInv, Constructed
<1>3. NoNews(Peer[n])  BY DEF NoNews, SameAt
<1>4. ASSUME NEW m \in {n, Peer[n]} PROVE PairInv(m)'
  <2>1. m \in App /\ PairInv(m) /\ NoNews(m) /\ Semaphores(m)'  BY <1>1, <1>3 DEF IInv
  <2>2. ThreadsHere(m)'  BY <2>1 DEF PairInv, ThreadsHere, NoNews
  <2>3. Together(m)'  BY <2>1 DEF PairInv, Together, HasThread, NoNews
  <2>4. QED  BY <2>1, <2>2, <2>3 DEF PairInv
<1>5. QED  BY <1>2, <1>4, BothInv

LEMMA ReleaseFirstInv ==
    ASSUME IInv, TypeOK', NEW n \in App, ReleaseFirst(n)
    PROVE  IInv'
<1>1. /\ mainAt[n] = "constructing" /\ mainAt'[n] = "waiting"
      /\ semaphore'[Mine(n)] = semaphore[Mine(n)] + 1
      /\ semaphore'[Mine(Peer[n])] = semaphore[Mine(Peer[n])]
      /\ UNCHANGED <<restarted, ended, signalVars, threadVars, engineVars>>
  BY PeerFacts DEF IInv, TypeOK, ReleaseFirst, Release, Goto
<1>2. SameAt(Peer[n]) /\ NoNews(n)
  BY <1>1, PeerFacts DEF ReleaseFirst, SameAt, NoNews, IInv, TypeOK, Goto, signalVars, threadVars,
                         engineVars
<1>3. LocalInv(n)'
  BY <1>1 DEF IInv, LocalInv, Constructed, Mail, Restarting, Outcome, Stopping,
              signalVars, threadVars, engineVars
<1>4. session[n] = 0 /\ ~ restarted[n]
  BY <1>1 DEF IInv, LocalInv, Constructed
<1>5. Semaphores(n)'
  <2>1. Released(n) = 0 /\ Released(n)' = 1 /\ Acquired(Peer[n])' = Acquired(Peer[n])
    BY <1>1, <1>2, <1>4 DEF Released, Acquired, SameAt, threadVars, engineVars
  <2>2. Semaphores(n) /\ semaphore[Mine(n)] \in Nat /\ Acquired(Peer[n]) \in Nat
    BY PeerFacts, CountTypes DEF IInv, PairInv
  <2>3. QED  BY <1>1, <2>1, <2>2 DEF Semaphores
<1>6. Semaphores(Peer[n])'
  <2>1. /\ Released(Peer[n])' = Released(Peer[n])
        /\ Acquired(n)' = Acquired(n)
    BY <1>1, <1>2, <1>4 DEF Released, Acquired, SameAt, threadVars, engineVars
  <2>2. QED  BY <1>1, <2>1, PeerFacts DEF IInv, PairInv, Semaphores
<1>7. QED  BY <1>1, <1>2, <1>3, <1>5, <1>6, SemaphoreStep DEF engineVars

LEMMA ProcessEndedInv ==
    ASSUME IInv, TypeOK', NEW n \in App, ProcessEnded(n)
    PROVE  IInv'
<1>1. /\ mainAt[n] = "loop" /\ actualSignal[n] = "zrtpEnded"
      /\ ~ restarted[n] /\ restarted'[n] /\ restarter'[n] = "acquiring"
      /\ semaphore'[Mine(n)] = semaphore[Mine(n)] + 1
      /\ semaphore'[Mine(Peer[n])] = semaphore[Mine(Peer[n])]
      /\ UNCHANGED <<mainAt, ended, actualSignal, threads, posting, engineVars>>
  BY PeerFacts DEF IInv, TypeOK, ProcessEnded, TakeSignal, Release, InLoop
<1>2. SameAt(Peer[n]) /\ NoNews(n)
  BY <1>1, PeerFacts DEF ProcessEnded, TakeSignal, SameAt, NoNews, IInv, TypeOK, engineVars
<1>3. engine[n] = "agreed" /\ posting[n] = <<>>
  BY <1>1 DEF IInv, LocalInv, Constructed, Mail, TimerSignal, TypeOK
<1>4. LocalInv(n)'
  BY <1>1, <1>3 DEF IInv, LocalInv, Constructed, Mail, Restarting, Outcome, Stopping, TimerSignal,
                    engineVars
<1>5. session[n] \in Nat /\ restarter[n] = "none"
  BY <1>1 DEF IInv, TypeOK, LocalInv, Restarting
<1>6. Semaphores(n)'
  <2>1. /\ Released(n) = session[n] /\ Released(n)' = session[n] + 1
        /\ Acquired(Peer[n])' = Acquired(Peer[n])
    BY <1>1, <1>2 DEF Released, Acquired, SameAt, engineVars
  <2>2. Semaphores(n) /\ semaphore[Mine(n)] \in Nat /\ Acquired(Peer[n]) \in Nat
    BY PeerFacts, CountTypes DEF IInv, PairInv
  <2>3. QED  BY <1>1, <1>5, <2>1, <2>2 DEF Semaphores
<1>7. Semaphores(Peer[n])'
  <2>1. Released(Peer[n])' = Released(Peer[n]) /\ Acquired(n)' = Acquired(n)
    BY <1>1, <1>2 DEF Released, Acquired, SameAt, engineVars
  <2>2. QED  BY <1>1, <2>1, PeerFacts DEF IInv, PairInv, Semaphores
<1>8. QED  BY <1>1, <1>2, <1>4, <1>6, <1>7, SemaphoreStep DEF engineVars

LEMMA RestarterAcquiresInv ==
    ASSUME IInv, TypeOK', NEW n \in App, RestarterAcquires(n)
    PROVE  IInv'
<1>1. /\ restarter[n] = "acquiring" /\ restarter'[n] = "signalling"
      /\ semaphore'[Mine(Peer[n])] = semaphore[Mine(Peer[n])] - 1
      /\ semaphore'[Mine(n)] = semaphore[Mine(n)]
      /\ UNCHANGED <<mainVars, signalVars, threads, posting, engineVars>>
  BY PeerFacts DEF IInv, TypeOK, RestarterAcquires, Acquire
<1>2. SameAt(Peer[n]) /\ NoNews(n)
  BY <1>1, PeerFacts DEF RestarterAcquires, SameAt, NoNews, IInv, TypeOK, mainVars, signalVars,
                         engineVars
<1>3. LocalInv(n)'
  BY <1>1 DEF IInv, LocalInv, Constructed, Mail, Restarting, Outcome, Stopping, TimerSignal,
              mainVars, signalVars, engineVars
<1>4. restarted[n] /\ session[n] \in Nat
  BY <1>1 DEF IInv, TypeOK, LocalInv, Restarting
<1>5. Semaphores(n)'
  <2>1. Released(n)' = Released(n) /\ Acquired(Peer[n])' = Acquired(Peer[n])
    BY <1>1, <1>2 DEF Released, Acquired, SameAt, mainVars, engineVars
  <2>2. QED  BY <1>1, <2>1 DEF IInv, PairInv, Semaphores
<1>6. Semaphores(Peer[n])'
  <2>1. /\ Released(Peer[n])' = Released(Peer[n])
        /\ Acquired(n) = session[n] /\ Acquired(n)' = session[n] + 1
    BY <1>1, <1>2, <1>4 DEF Released, Acquired, SameAt, mainVars, engineVars
  <2>2. Semaphores(Peer[n]) /\ semaphore[Mine(Peer[n])] \in Nat
    BY PeerFacts DEF IInv, PairInv, TypeOK
  <2>3. QED  BY <1>1, <1>4, <2>1, <2>2, PeerFacts DEF Semaphores
<1>7. QED  BY <1>1, <1>2, <1>3, <1>5, <1>6, SemaphoreStep DEF engineVars

-----------------------------------------------------------------------------
(* A new Zrtp object. *)

LEMMA NewZrtpInv ==
    ASSUME IInv, TypeOK', NEW n \in App, NewZrtp(n), SameAt(Peer[n]), threads' = threads,
           threads[n] = {}, posting[n] = <<>>, restarter[n] = "none",
           posting'[n] = <<>>, restarter'[n] = "none", ~ restarted'[n], mainAt'[n] = "loop",
           session[Peer[n]] \in {session[n], session[n] + 1},
           engine[n] \in {"none", "agreed"},
           engine[Peer[n]] # "keys" \/ session[Peer[n]] # session[n],
           Semaphores(n)', Semaphores(Peer[n])'
    PROVE  IInv'
<1>1. Peer[n] \in App /\ Peer[Peer[n]] = n /\ Peer[n] # n  BY PeerFacts
<1>2. /\ session'[n] = session[n] + 1 /\ engine'[n] = "hello" /\ ~ acked'[n]
      /\ actualSignal'[n] = "activateTimer"
      /\ acked'[Peer[n]] = acked[Peer[n]]
      /\ session[n] \in Nat /\ session[Peer[n]] \in Nat
  BY <1>1 DEF NewZrtp, IInv, TypeOK
<1>3. LocalInv(n)'
  BY <1>2 DEF LocalInv, Constructed, Mail, Restarting, Outcome, Stopping, TimerSignal, TimerPosts
<1>4. LocalInv(Peer[n])'
  BY <1>1, <1>2, LocalFrame DEF IInv, LocalInv, Constructed
<1>5. PairInv(n)'
  BY <1>2 DEF PairInv, ThreadsHere, Together, HasThread
<1>6. /\ session'[Peer[n]] = session[Peer[n]] /\ engine'[Peer[n]] = engine[Peer[n]]
      /\ threads'[Peer[n]] = threads[Peer[n]]
  BY DEF SameAt
<1>7. ThreadsHere(Peer[n])'
  BY <1>1, <1>6 DEF IInv, PairInv, ThreadsHere
<1>8. Together(Peer[n])'
  <2>1. Together(Peer[n]) /\ Together(n)  BY <1>1 DEF IInv, PairInv
  <2>2. LocalInv(n) /\ LocalInv(Peer[n])  BY <1>1 DEF IInv
  <2>3. session'[n] >= session'[Peer[n]]  BY <1>2, <1>6
  <2>4. engine[Peer[n]] = "agreed" =>
          session'[n] = session'[Peer[n]] + 1
    BY <1>1, <1>2, <1>6, <2>1, <2>2 DEF Together, LocalInv, Constructed
  <2>5. ~ HasThread(Peer[n], "error")
    BY <1>1, <1>2, <2>1 DEF Together
  <2>6. acked[Peer[n]] \/ HasThread(Peer[n], "ack") => engine[Peer[n]] # "keys"
    BY <1>1, <1>2, <2>1 DEF Together
  <2>7. HasThread(Peer[n], "error")' = HasThread(Peer[n], "error")
        /\ HasThread(Peer[n], "ack")' = HasThread(Peer[n], "ack")
    BY <1>6 DEF HasThread
  <2>8. QED
    BY <1>1, <1>2, <1>6, <2>1, <2>3, <2>4, <2>5, <2>6, <2>7 DEF Together
<1>9. QED
  BY <1>3, <1>4, <1>5, <1>7, <1>8, BothInv DEF PairInv

LEMMA AcquireFirstInv ==
    ASSUME IInv, TypeOK', NEW n \in App, AcquireFirst(n)
    PROVE  IInv'
<1>1. Peer[n] \in App /\ Peer[Peer[n]] = n /\ Peer[n] # n /\ Theirs(n) = Mine(Peer[n])
      /\ Mine(n) # Mine(Peer[n]) /\ Mine(n) \in Semaphore /\ Mine(Peer[n]) \in Semaphore
  BY PeerFacts
<1>2. /\ mainAt[n] = "waiting" /\ mainAt'[n] = "loop"
      /\ semaphore[Mine(Peer[n])] > 0
      /\ semaphore'[Mine(Peer[n])] = semaphore[Mine(Peer[n])] - 1
      /\ semaphore'[Mine(n)] = semaphore[Mine(n)]
      /\ session'[n] = session[n] + 1
      /\ UNCHANGED <<restarted, ended, threadVars>>
  BY <1>1 DEF IInv, TypeOK, AcquireFirst, Acquire, Goto, NewZrtp
<1>3. /\ session[n] = 0 /\ engine[n] = "none" /\ threads[n] = {} /\ posting[n] = <<>>
      /\ restarter[n] = "none" /\ ~ restarted[n]
  BY <1>2 DEF IInv, LocalInv, Constructed
<1>4. SameAt(Peer[n])
  BY <1>1, <1>2 DEF AcquireFirst, NewZrtp, SameAt, IInv, TypeOK, Goto, threadVars
<1>5. /\ Acquired(n) = 0 /\ Released(n) = 1 /\ Acquired(n)' = 1 /\ Released(n)' = 1
      /\ Acquired(Peer[n])' = Acquired(Peer[n]) /\ Released(Peer[n])' = Released(Peer[n])
  BY <1>2, <1>3, <1>4 DEF Acquired, Released, threadVars, SameAt
<1>6. /\ semaphore[Mine(n)] \in Nat /\ semaphore[Mine(Peer[n])] \in Nat
      /\ semaphore[Mine(n)] + Acquired(Peer[n]) = 1
      /\ semaphore[Mine(Peer[n])] = Released(Peer[n])
      /\ Acquired(Peer[n]) \in Nat /\ session[Peer[n]] \in Nat
  <2>1. Semaphores(n) /\ Semaphores(Peer[n])  BY <1>1 DEF IInv, PairInv
  <2>2. Acquired(Peer[n]) \in Nat /\ Released(Peer[n]) \in Nat /\ session[Peer[n]] \in Nat
        /\ semaphore[Mine(n)] \in Nat /\ semaphore[Mine(Peer[n])] \in Nat
    BY <1>1, CountTypes DEF IInv
  <2>3. QED  BY <1>1, <1>5, <2>1, <2>2 DEF Semaphores
<1>7. session[Peer[n]] \in {0, 1}
  BY <1>6 DEF Acquired
<1>8. Semaphores(n)' /\ Semaphores(Peer[n])'
  BY <1>1, <1>2, <1>5, <1>6 DEF Semaphores
<1>9. engine[Peer[n]] # "keys"
  BY <1>1, <1>3, <1>6 DEF IInv, LocalInv, PairInv, Constructed, Together
<1>10. QED
  BY <1>2, <1>3, <1>4, <1>7, <1>8, <1>9, NewZrtpInv DEF AcquireFirst, threadVars

LEMMA RestartZrtpInv ==
    ASSUME IInv, TypeOK', NEW n \in App, RestartZrtp(n)
    PROVE  IInv'
<1>1. Peer[n] \in App /\ Peer[Peer[n]] = n /\ Peer[n] # n  BY PeerFacts
<1>2. /\ mainAt[n] = "restarting" /\ mainAt'[n] = "loop" /\ ~ restarted'[n]
      /\ threads[n] = {} /\ posting[n] = <<>> /\ restarter[n] = "none"
      /\ session'[n] = session[n] + 1
      /\ UNCHANGED <<ended, threadVars, semaphore>>
  BY DEF IInv, TypeOK, RestartZrtp, ThreadsEnded, Goto, NewZrtp
<1>3. restarted[n] /\ engine[n] = "agreed"
  BY <1>2 DEF IInv, LocalInv, Restarting
<1>4. SameAt(Peer[n])
  BY <1>1, <1>2 DEF RestartZrtp, NewZrtp, SameAt, IInv, TypeOK, Goto, threadVars
<1>5. session[n] \in Nat /\ session[Peer[n]] \in Nat
  BY <1>1 DEF IInv, TypeOK
<1>6. /\ Acquired(n) = session[n] + 1 /\ Released(n) = session[n] + 1
      /\ Acquired(n)' = session[n] + 1 /\ Released(n)' = session[n] + 1
      /\ Acquired(Peer[n])' = Acquired(Peer[n]) /\ Released(Peer[n])' = Released(Peer[n])
  BY <1>2, <1>3, <1>4, <1>5 DEF Acquired, Released, threadVars, SameAt
<1>7. Semaphores(n)' /\ Semaphores(Peer[n])'
  BY <1>1, <1>2, <1>6 DEF IInv, PairInv, Semaphores
<1>8. session[n] + 1 <= Released(Peer[n])
  <2>1. semaphore[Mine(Peer[n])] + Acquired(n) = Released(Peer[n])
    BY <1>1 DEF IInv, PairInv, Semaphores
  <2>2. semaphore[Mine(Peer[n])] \in Nat /\ Released(Peer[n]) \in Nat
    BY <1>1, CountTypes DEF IInv
  <2>3. QED  BY <1>5, <1>6, <2>1, <2>2
<1>9. session[Peer[n]] \in {session[n], session[n] + 1}
  BY <1>3 DEF IInv, PairInv, Together
<1>10. engine[Peer[n]] # "keys" \/ session[Peer[n]] # session[n]
  <2>1. SUFFICES ASSUME engine[Peer[n]] = "keys", session[Peer[n]] = session[n] PROVE FALSE
    OBVIOUS
  <2>2. session[n] # 0
    BY <1>3 DEF IInv, LocalInv, Constructed
  <2>3. ~ restarted[Peer[n]] /\ mainAt[Peer[n]] # "waiting"
    BY <1>1, <2>1, <2>2 DEF IInv, LocalInv, Restarting, Constructed
  <2>4. QED  BY <1>5, <1>8, <2>1, <2>3 DEF Released
<1>11. QED
  BY <1>2, <1>3, <1>4, <1>7, <1>9, <1>10, NewZrtpInv DEF RestartZrtp, threadVars

-----------------------------------------------------------------------------
(* processEvent. *)

LEMMA EnterFacts ==
    ASSUME IInv, NEW n \in App, NEW thread \in threads[n], NEW posts, Enter(n, thread, posts)
    PROVE  /\ session[n] \in Nat /\ session[n] > 0 /\ posting[n] = <<>> /\ posting'[n] = posts
           /\ threads'[n] \subseteq threads[n] /\ NoNews(n)
           /\ UNCHANGED <<mainVars, signalVars, restarter, semaphore, session>>
           /\ posting'[Peer[n]] = posting[Peer[n]] /\ threads'[Peer[n]] = threads[Peer[n]]
           /\ Released(n)' = Released(n) /\ Acquired(n)' = Acquired(n)
           /\ Released(Peer[n])' = Released(Peer[n]) /\ Acquired(Peer[n])' = Acquired(Peer[n])
<1>1. Peer[n] \in App /\ Peer[n] # n  BY PeerFacts
<1>2. UNCHANGED <<mainVars, signalVars, restarter, semaphore, session>>
  BY DEF Enter
<1>3. session[n] \in Nat /\ session[n] > 0
  BY DEF IInv, TypeOK, LocalInv, Constructed
<1>4. /\ posting[n] = <<>> /\ posting'[n] = posts
      /\ threads'[n] = threads[n] \ {thread}
      /\ posting'[Peer[n]] = posting[Peer[n]] /\ threads'[Peer[n]] = threads[Peer[n]]
  BY <1>1 DEF Enter, IInv, TypeOK
<1>5. ASSUME NEW m PROVE Released(m)' = Released(m) /\ Acquired(m)' = Acquired(m)
  BY <1>2 DEF Released, Acquired, mainVars
<1>6. QED  BY <1>2, <1>3, <1>4, <1>5 DEF NoNews

Active == {"hello", "keys", "failing"}

LEMMA GoesOn ==
    ASSUME IInv, NEW n \in App, NEW thread \in threads[n], NEW posts \in TimerPosts,
           Enter(n, thread, posts), engine[n] \in Active, engine'[n] \in Active
    PROVE  LocalInv(n)'
<1>1. LocalInv(n)  BY DEF IInv
<1>2. Constructed(n)'
  BY <1>1, EnterFacts DEF LocalInv, Constructed, Active, mainVars
<1>3. Mail(n)'
  BY <1>1, EnterFacts DEF LocalInv, Mail, Active, signalVars
<1>4. Restarting(n)'
  BY <1>1, EnterFacts DEF LocalInv, Restarting, Active, signalVars, mainVars
<1>5. Outcome(n)'
  BY <1>1, EnterFacts DEF LocalInv, Outcome, Mail, TimerSignal, Active, signalVars, mainVars
<1>6. QED  BY <1>2, <1>3, <1>4, <1>5 DEF LocalInv

LEMMA Ends ==
    ASSUME IInv, NEW n \in App, NEW thread \in threads[n], NEW posts,
           Enter(n, thread, posts), engine[n] \in Active,
           \/ engine'[n] = "agreed" /\ posts \in {<<"zrtpEnded">>, <<"stopTimer", "zrtpEnded">>}
           \/ engine'[n] = "failed" /\ posts \in {<<"zrtpFailed">>, <<"stopTimer", "zrtpFailed">>}
    PROVE  LocalInv(n)'
<1>1. LocalInv(n) /\ posts # <<>>  BY DEF IInv
<1>2. Constructed(n)'
  BY <1>1, EnterFacts DEF LocalInv, Constructed, Active, mainVars
<1>3. actualSignal'[n] \in TimerSignal /\ posting'[n] = posts
  BY <1>1, EnterFacts DEF LocalInv, Mail, Active, signalVars
<1>4. Mail(n)'
  BY <1>1, <1>3 DEF Mail, Active, TimerSignal
<1>5. Restarting(n)'
  BY <1>1, <1>3, EnterFacts DEF LocalInv, Restarting, Active, TimerSignal, mainVars
<1>6. Outcome(n)'
  BY <1>1, <1>3 DEF Outcome, TimerSignal
<1>7. QED  BY <1>2, <1>4, <1>5, <1>6 DEF LocalInv

LEMMA Ended ==
    ASSUME IInv, NEW n \in App, NEW thread \in threads[n], Enter(n, thread, <<>>),
           engine'[n] = engine[n]
    PROVE  LocalInv(n)'
<1>1. LocalInv(n)  BY DEF IInv
<1>2. Constructed(n)'
  BY <1>1, EnterFacts DEF LocalInv, Constructed, mainVars
<1>3. Mail(n)' /\ Restarting(n)' /\ Outcome(n)'
  BY <1>1, EnterFacts DEF LocalInv, Mail, Restarting, Outcome, Stopping, signalVars, mainVars
<1>4. QED  BY <1>2, <1>3 DEF LocalInv

(* A handler that leaves the key agreement as it is. *)
LEMMA QuietEvent ==
    ASSUME IInv, TypeOK', NEW n \in App, NEW thread \in threads[n], NEW posts,
           Enter(n, thread, posts), LocalInv(n)', UNCHANGED <<engine, acked>>
    PROVE  IInv'
<1>1. SameAt(Peer[n])  BY EnterFacts DEF SameAt, mainVars, signalVars
<1>2. QED  BY <1>1, EnterFacts, QuietStep

(* A handler that does not. *)
LEMMA EventStep ==
    ASSUME IInv, TypeOK', NEW n \in App, NEW thread \in threads[n], NEW posts,
           Enter(n, thread, posts), LocalInv(n)', engine'[Peer[n]] = engine[Peer[n]],
           session[Peer[n]] = 0 => ~ acked'[Peer[n]],
           Together(n)', Together(Peer[n])'
    PROVE  IInv'
<1>1. Peer[n] \in App /\ Peer[Peer[n]] = n  BY PeerFacts
<1>2. SameAt(Peer[n])  BY EnterFacts DEF SameAt, mainVars, signalVars
<1>3. LocalInv(Peer[n])'  BY <1>1, <1>2, LocalFrame DEF IInv
<1>4. ASSUME NEW m \in {n, Peer[n]} PROVE ThreadsHere(m)' /\ Semaphores(m)'
  <2>1. ThreadsHere(m) /\ Semaphores(m)  BY <1>1 DEF IInv, PairInv
  <2>2. threads'[m] \subseteq threads[m] /\ session' = session /\ semaphore' = semaphore
    BY EnterFacts
  <2>3. Released(m)' = Released(m) /\ Acquired(Peer[m])' = Acquired(Peer[m])
    BY <1>1, EnterFacts
  <2>4. QED  BY <2>1, <2>2, <2>3 DEF ThreadsHere, Semaphores
<1>5. QED  BY <1>3, <1>4, BothInv DEF PairInv

(* What is known of the two key agreements when a handler begins. *)
LEMMA PairFacts ==
    ASSUME IInv, NEW n \in App
    PROVE  /\ Peer[n] \in App /\ Peer[Peer[n]] = n /\ Peer[n] # n
           /\ Together(n) /\ Together(Peer[n])
           /\ session[n] \in Nat /\ session[Peer[n]] \in Nat
           /\ engine[n] \in Active \cup {"none", "agreed", "failed"}
           /\ engine[Peer[n]] \in Active \cup {"none", "agreed", "failed"}
           /\ session[n] = 0 => ~ acked[n]
           /\ session[Peer[n]] = 0 => ~ acked[Peer[n]]
<1>1. Peer[n] \in App /\ Peer[Peer[n]] = n /\ Peer[n] # n  BY PeerFacts
<1>2. Together(n) /\ Together(Peer[n])  BY <1>1 DEF IInv, PairInv
<1>3. LocalInv(n) /\ LocalInv(Peer[n])  BY <1>1 DEF IInv
<1>4. QED  BY <1>1, <1>2, <1>3 DEF IInv, TypeOK, LocalInv, Constructed, Active

LEMMA AcknowledgeFacts ==
    ASSUME IInv, NEW n \in App, Acknowledge(n)
    PROVE  /\ acked'[n] => acked[n] \/ InSession(n)
           /\ acked'[Peer[n]] = acked[Peer[n]]
BY PeerFacts DEF Acknowledge, IInv, TypeOK

LEMMA SetFacts ==
    ASSUME IInv, NEW n \in App, NEW value
    PROVE  /\ engine' = [engine EXCEPT ![n] = value] =>
                engine'[n] = value /\ engine'[Peer[n]] = engine[Peer[n]]
           /\ acked' = [acked EXCEPT ![n] = value] =>
                acked'[n] = value /\ acked'[Peer[n]] = acked[Peer[n]]
<1>1. Peer[n] \in App /\ Peer[n] # n  BY PeerFacts
<1>2. DOMAIN engine = App /\ DOMAIN acked = App  BY DEF IInv, TypeOK
<1>3. QED  BY <1>1, <1>2

LEMMA BeginKeysInv ==
    ASSUME IInv, TypeOK', NEW n \in App, NEW thread \in threads[n],
           SendCommit(n, thread) \/ AcceptCommit(n, thread) \/ Reject(n, thread)
    PROVE  IInv'
<1>1. PICK posts \in TimerPosts : Enter(n, thread, posts)
  BY DEF SendCommit, AcceptCommit, Reject, TimerPosts
<1>2. /\ engine[n] \in {"hello", "keys"} /\ InSession(n) /\ UNCHANGED acked
      /\ \/ engine[n] = "hello" /\ engine' = [engine EXCEPT ![n] = "keys"]
         \/ engine' = [engine EXCEPT ![n] = "failing"] /\ engine[Peer[n]] # "agreed"
  BY DEF SendCommit, AcceptCommit, Reject, Running
<1>3. /\ engine'[Peer[n]] = engine[Peer[n]]
      /\ \/ engine[n] = "hello" /\ engine'[n] = "keys"
         \/ engine'[n] = "failing" /\ engine[Peer[n]] # "agreed"
  BY <1>2, SetFacts
<1>4. LocalInv(n)'
  BY <1>1, <1>2, <1>3, GoesOn DEF Active
<1>5. session' = session /\ threads'[n] \subseteq threads[n]
      /\ threads'[Peer[n]] = threads[Peer[n]] /\ session[Peer[n]] = session[n]
  BY <1>1, <1>2, EnterFacts DEF InSession
<1>6. Together(n)'
  BY <1>2, <1>3, <1>5, PairFacts DEF Together, HasThread
<1>7. Together(Peer[n])'
  BY <1>2, <1>3, <1>5, PairFacts DEF Together, HasThread
<1>8. QED  BY <1>1, <1>2, <1>3, <1>4, <1>6, <1>7, PairFacts, EventStep

LEMMA AcceptErrorInv ==
    ASSUME IInv, TypeOK', NEW n \in App, NEW thread \in threads[n], AcceptError(n, thread)
    PROVE  IInv'
<1>1. /\ Enter(n, thread, <<"zrtpFailed">>) /\ Acknowledge(Peer[n])
      /\ engine' = [engine EXCEPT ![n] = "failed"] /\ HasThread(n, "error")
  BY DEF AcceptError, HasThread
<1>2. engine'[n] = "failed" /\ engine'[Peer[n]] = engine[Peer[n]]
  BY <1>1, SetFacts
<1>3. session[Peer[n]] = session[n] /\ engine[Peer[n]] \in {"failing", "failed"}
  BY <1>1, PairFacts DEF Together
<1>4. engine[n] \in Active \cup {"failed"}
  BY <1>3, EnterFacts, <1>1, PairFacts DEF Together, IInv, LocalInv, Constructed, Active
<1>5. LocalInv(n)'
  <2>1. CASE engine[n] \in Active
    BY <1>1, <1>2, <2>1, Ends
  <2>2. CASE engine[n] = "failed"
    <3>1. LocalInv(n)  BY DEF IInv
    <3>2. Constructed(n)'
      BY <1>1, <1>2, <2>2, <3>1, EnterFacts DEF LocalInv, Constructed, mainVars
    <3>3. /\ posting'[n] = <<"zrtpFailed">> /\ posting'[n] # <<>>
          /\ posting'[n] # <<"stopTimer", "zrtpFailed">>
          /\ actualSignal'[n] = "zrtpFailed"
      BY <1>1, <2>2, <3>1, EnterFacts, PostFacts DEF LocalInv, Mail, signalVars, Signal
    <3>4. Mail(n)' /\ Outcome(n)'
      BY <1>2, <3>3 DEF Mail, Outcome
    <3>5. Restarting(n)'
      BY <1>1, <2>2, <3>1, <3>3, EnterFacts DEF LocalInv, Restarting, mainVars
    <3>6. QED  BY <3>2, <3>4, <3>5 DEF LocalInv
  <2>3. QED  BY <1>4, <2>1, <2>2
<1>6. /\ session' = session /\ threads'[n] \subseteq threads[n] /\ session[n] > 0
      /\ threads'[Peer[n]] = threads[Peer[n]] /\ acked'[n] = acked[n]
  BY <1>1, EnterFacts, AcknowledgeFacts, PeerFacts
<1>7. Together(n)'
  BY <1>2, <1>3, <1>6, PairFacts DEF Together, HasThread
<1>8. Together(Peer[n])'
  BY <1>2, <1>3, <1>6, PairFacts DEF Together, HasThread
<1>9. QED  BY <1>1, <1>2, <1>3, <1>5, <1>6, <1>7, <1>8, EventStep

LEMMA AcceptErrorAckInv ==
    ASSUME IInv, TypeOK', NEW n \in App, NEW thread \in threads[n], AcceptErrorAck(n, thread)
    PROVE  IInv'
<1>1. /\ Enter(n, thread, <<"stopTimer", "zrtpFailed">>) /\ engine[n] = "failing"
      /\ engine' = [engine EXCEPT ![n] = "failed"] /\ acked' = [acked EXCEPT ![n] = FALSE]
  BY DEF AcceptErrorAck
<1>2. /\ engine'[n] = "failed" /\ engine'[Peer[n]] = engine[Peer[n]]
      /\ ~ acked'[n] /\ acked'[Peer[n]] = acked[Peer[n]]
  BY <1>1, SetFacts
<1>3. LocalInv(n)'  BY <1>1, <1>2, Ends DEF Active
<1>4. /\ session' = session /\ threads'[n] \subseteq threads[n]
      /\ threads'[Peer[n]] = threads[Peer[n]]
  BY <1>1, EnterFacts
<1>5. Together(n)'
  BY <1>1, <1>2, <1>4, PairFacts DEF Together, HasThread
<1>6. Together(Peer[n])'
  BY <1>1, <1>2, <1>4, PairFacts DEF Together, HasThread
<1>7. QED  BY <1>1, <1>2, <1>3, <1>5, <1>6, PairFacts, EventStep

LEMMA AcceptConfirm2Inv ==
    ASSUME IInv, TypeOK', NEW n \in App, NEW thread \in threads[n], AcceptConfirm2(n, thread)
    PROVE  IInv'
<1>1. /\ Enter(n, thread, <<"zrtpEnded">>) /\ Acknowledge(Peer[n])
      /\ engine[n] = "keys" /\ engine[Peer[n]] = "keys"
      /\ engine' = [engine EXCEPT ![n] = "agreed"]
  BY DEF AcceptConfirm2
<1>2. engine'[n] = "agreed" /\ engine'[Peer[n]] = "keys"
  BY <1>1, SetFacts
<1>3. session[Peer[n]] = session[n]
  BY <1>1, PairFacts DEF Together
<1>4. LocalInv(n)'  BY <1>1, <1>2, Ends DEF Active
<1>5. /\ session' = session /\ threads'[n] \subseteq threads[n] /\ session[n] > 0
      /\ threads'[Peer[n]] = threads[Peer[n]] /\ acked'[n] = acked[n]
  BY <1>1, EnterFacts, AcknowledgeFacts, PeerFacts
<1>6. Together(n)'
  BY <1>1, <1>2, <1>3, <1>5, PairFacts DEF Together, HasThread
<1>7. Together(Peer[n])'
  BY <1>1, <1>2, <1>3, <1>5, PairFacts DEF Together, HasThread
<1>8. QED  BY <1>1, <1>2, <1>3, <1>4, <1>5, <1>6, <1>7, EventStep

LEMMA RepeatConf2AckInv ==
    ASSUME IInv, TypeOK', NEW n \in App, NEW thread \in threads[n], RepeatConf2Ack(n, thread)
    PROVE  IInv'
<1>1. /\ Enter(n, thread, <<>>) /\ Acknowledge(Peer[n])
      /\ engine[n] = "agreed" /\ UNCHANGED engine
  BY DEF RepeatConf2Ack
<1>2. LocalInv(n)'  BY <1>1, Ended
<1>3. /\ session' = session /\ threads'[n] \subseteq threads[n] /\ session[n] > 0
      /\ threads'[Peer[n]] = threads[Peer[n]] /\ acked'[n] = acked[n]
      /\ acked'[Peer[n]] => acked[Peer[n]] \/ InSession(Peer[n])
  BY <1>1, EnterFacts, AcknowledgeFacts, PeerFacts
<1>4. Together(n)'
  BY <1>1, <1>3, PairFacts DEF Together, HasThread
<1>5. InSession(Peer[n]) =>
        session[Peer[n]] = session[n] /\ engine[Peer[n]] \in {"keys", "agreed"}
  BY <1>1, PairFacts DEF Together, InSession
<1>6. Together(Peer[n])'
  BY <1>1, <1>3, <1>5, PairFacts DEF Together, HasThread
<1>7. session[Peer[n]] = 0 => ~ acked'[Peer[n]]
  BY <1>3, PairFacts DEF InSession
<1>8. QED  BY <1>1, <1>2, <1>4, <1>6, <1>7, EventStep

LEMMA AcceptConf2AckInv ==
    ASSUME IInv, TypeOK', NEW n \in App, NEW thread \in threads[n], AcceptConf2Ack(n, thread)
    PROVE  IInv'
<1>1. /\ Enter(n, thread, <<"stopTimer", "zrtpEnded">>) /\ engine[n] = "keys"
      /\ engine' = [engine EXCEPT ![n] = "agreed"] /\ acked' = [acked EXCEPT ![n] = FALSE]
      /\ HasThread(n, "ack")
  BY DEF AcceptConf2Ack, HasThread
<1>2. /\ engine'[n] = "agreed" /\ engine'[Peer[n]] = engine[Peer[n]]
      /\ ~ acked'[n] /\ acked'[Peer[n]] = acked[Peer[n]]
  BY <1>1, SetFacts
<1>3. session[Peer[n]] = session[n] /\ engine[Peer[n]] = "agreed"
  BY <1>1, PairFacts DEF Together
<1>4. LocalInv(n)'  BY <1>1, <1>2, Ends DEF Active
<1>5. /\ session' = session /\ threads'[n] \subseteq threads[n]
      /\ threads'[Peer[n]] = threads[Peer[n]]
  BY <1>1, EnterFacts
<1>6. Together(n)'
  BY <1>2, <1>3, <1>5, PairFacts DEF Together, HasThread
<1>7. Together(Peer[n])'
  BY <1>2, <1>3, <1>5, PairFacts DEF Together, HasThread
<1>8. QED  BY <1>1, <1>2, <1>4, <1>6, <1>7, PairFacts, EventStep

LEMMA QuietHandlersInv ==
    ASSUME IInv, TypeOK', NEW n \in App, NEW thread \in threads[n],
           \/ ExchangeHello(n, thread) \/ AcceptDHPart2(n, thread) \/ AnswerKeys(n, thread)
           \/ Resend(n, thread) \/ IgnoreTimeout(n, thread) \/ IgnoreMessage(n, thread)
    PROVE  IInv'
<1>1. UNCHANGED <<engine, acked>>
  BY DEF ExchangeHello, AcceptDHPart2, AnswerKeys, Resend, IgnoreTimeout, IgnoreMessage
<1>2. CASE ExchangeHello(n, thread)
  <2>1. PICK posts \in TimerPosts : Enter(n, thread, posts)  BY <1>2 DEF ExchangeHello
  <2>2. LocalInv(n)'  BY <1>1, <1>2, <2>1, GoesOn DEF ExchangeHello, Active
  <2>3. QED  BY <1>1, <2>1, <2>2, QuietEvent
<1>3. CASE AnswerKeys(n, thread)
  <2>1. Enter(n, thread, <<"stopTimer", "activateTimer">>) /\ engine[n] = "keys"
    BY <1>3 DEF AnswerKeys
  <2>2. LocalInv(n)'  BY <1>1, <2>1, GoesOn DEF Active, TimerPosts
  <2>3. QED  BY <1>1, <2>1, <2>2, QuietEvent
<1>4. CASE Resend(n, thread)
  <2>1. PICK posts \in TimerPosts : Enter(n, thread, posts)  BY <1>4 DEF Resend, TimerPosts
  <2>2. LocalInv(n)'  BY <1>1, <1>4, <2>1, GoesOn DEF Resend, Running, Active
  <2>3. QED  BY <1>1, <2>1, <2>2, QuietEvent
<1>8. CASE AcceptDHPart2(n, thread)
  <2>1. Enter(n, thread, <<"stopTimer">>) /\ engine[n] = "keys"
    BY <1>8 DEF AcceptDHPart2
  <2>2. LocalInv(n)'  BY <1>1, <2>1, GoesOn DEF Active, TimerPosts
  <2>3. QED  BY <1>1, <2>1, <2>2, QuietEvent
<1>5. CASE IgnoreTimeout(n, thread)
  <2>1. Enter(n, thread, <<>>)  BY <1>5 DEF IgnoreTimeout
  <2>2. LocalInv(n)'  BY <1>1, <2>1, Ended
  <2>3. QED  BY <1>1, <2>1, <2>2, QuietEvent
<1>6. CASE IgnoreMessage(n, thread)
  <2>1. CASE Enter(n, thread, <<>>)
    <3>1. LocalInv(n)'  BY <1>1, <2>1, Ended
    <3>2. QED  BY <1>1, <2>1, <3>1, QuietEvent
  <2>2. CASE engine[n] = "keys" /\ Enter(n, thread, <<"stopTimer">>)
    <3>1. LocalInv(n)'  BY <1>1, <2>2, GoesOn DEF Active, TimerPosts
    <3>2. QED  BY <1>1, <2>2, <3>1, QuietEvent
  <2>3. QED  BY <1>6, <2>1, <2>2 DEF IgnoreMessage
<1>7. QED  BY <1>2, <1>3, <1>4, <1>5, <1>6, <1>8

-----------------------------------------------------------------------------
LEMMA NextInv == IInv /\ [Next]_vars => IInv'
<1> SUFFICES ASSUME IInv, [Next]_vars PROVE IInv'
  OBVIOUS
<1>1. TypeOK'  BY NextType DEF IInv
<1>2. CASE UNCHANGED vars
  <2>1. ASSUME NEW n \in App PROVE LocalInv(n)'
    <3>1. SameAt(n) /\ acked' = acked /\ session' = session
      BY <1>2 DEF SameAt, vars, mainVars, signalVars, threadVars, engineVars
    <3>2. QED  BY <3>1, LocalFrame DEF IInv, LocalInv, Constructed
  <2>2. ASSUME NEW n \in App PROVE PairInv(n)'
    BY <1>2, PairFrame DEF IInv, NoNews, Released, Acquired, vars, mainVars, signalVars, threadVars,
                           engineVars
  <2>3. QED  BY <1>1, <2>1, <2>2 DEF IInv
<1>3. ASSUME NEW n \in App, MainThread(n) PROVE IInv'
  BY <1>1, <1>3, ReleaseFirstInv, AcquireFirstInv, TimerSignalInv, LastEndedInv, ProcessEndedInv,
     EndedAgainInv, ProcessRestartInv, RestartZrtpInv, EndZrtpInv
  DEF MainThread, ProcessSignal
<1>4. ASSUME NEW n \in App, NEW kind \in Kind \ {"timeout"}, ProcessPendingDatagram(n, kind)
      PROVE  IInv'
  BY <1>1, <1>4, DatagramInv
<1>5. ASSUME NEW n \in App, CreateTimeoutThread(n) PROVE IInv'
  BY <1>1, <1>5, CreateTimeoutThreadInv
<1>6. ASSUME NEW n \in App, ProcessEvent(n) PROVE IInv'
  BY <1>1, <1>6, QuietHandlersInv, BeginKeysInv, AcceptErrorInv, AcceptErrorAckInv,
     AcceptConfirm2Inv, RepeatConf2AckInv, AcceptConf2AckInv
  DEF ProcessEvent
<1>7. ASSUME NEW n \in App, Post(n) PROVE IInv'
  BY <1>1, <1>7, PostInv
<1>8. ASSUME NEW n \in App, Restart(n) PROVE IInv'
  BY <1>1, <1>8, RestarterAcquiresInv, RestarterSignalsInv DEF Restart
<1>9. QED  BY <1>2, <1>3, <1>4, <1>5, <1>6, <1>7, <1>8 DEF Next

LEMMA InvCorrect == Spec => []IInv
BY InitInv, NextInv, PTL DEF Spec

(* Threads never outlive the key agreement they were started in: restartZrtp *)
(* waits for them before it deletes the Zrtp object they call.             *)
THEOREM ThreadsStay == Spec => []ThreadsOfSession
<1>1. IInv => ThreadsOfSession
  BY DEF IInv, PairInv, ThreadsHere, ThreadsOfSession
<1>2. QED  BY <1>1, InvCorrect, PTL

(* The outcome of a key agreement is not overwritten in actualSignal before *)
(* processSignal has read it, however many threads set it.                 *)
THEOREM OutcomesReach == Spec => []OutcomeNotLost
<1>1. ASSUME IInv, NEW n \in App, engine[n] = "agreed"
      PROVE  Pending(n, "zrtpEnded") \/ restarted[n] \/ Stopping(n)
  <2>1. LocalInv(n)  BY <1>1 DEF IInv
  <2>2. CASE posting[n] = <<"zrtpEnded">>
    BY <2>2 DEF Pending
  <2>3. CASE posting[n] = <<"stopTimer", "zrtpEnded">>
    BY <2>3 DEF Pending
  <2>4. CASE posting[n] = <<>>
    BY <1>1, <2>1, <2>4 DEF LocalInv, Outcome, Pending
  <2>5. QED  BY <1>1, <2>1, <2>2, <2>3, <2>4 DEF LocalInv, Mail
<1>2. ASSUME IInv, NEW n \in App, engine[n] = "failed"
      PROVE  Pending(n, "zrtpFailed") \/ Stopping(n)
  <2>1. LocalInv(n)  BY <1>2 DEF IInv
  <2>2. CASE posting[n] = <<"zrtpFailed">>
    BY <2>2 DEF Pending
  <2>3. CASE posting[n] = <<"stopTimer", "zrtpFailed">>
    BY <2>3 DEF Pending
  <2>4. CASE posting[n] = <<>>
    BY <1>2, <2>1, <2>4 DEF LocalInv, Outcome, Pending
  <2>5. QED  BY <1>2, <2>1, <2>2, <2>3, <2>4 DEF LocalInv, Mail
<1>3. IInv => OutcomeNotLost  BY <1>1, <1>2 DEF OutcomeNotLost
<1>4. QED  BY <1>3, InvCorrect, PTL

(* ... nor is the restart that the Restarter asks for. *)
THEOREM RestartsReach == Spec => []RestartNotLost
<1>1. IInv => RestartNotLost
  BY DEF IInv, LocalInv, Restarting, Outcome, RestartNotLost, Pending
<1>2. QED  BY <1>1, InvCorrect, PTL

-----------------------------------------------------------------------------
(* Rendezvous. *)

LEMMA MeetingInit == Init => Meeting!Init
<1> SUFFICES ASSUME Init PROVE Meeting!Init
  OBVIOUS
<1>1. session = [n \in App |-> 0] /\ mainAt = [n \in App |-> "constructing"]
  BY DEF Init
<1>2. arrived = [n \in App |-> FALSE]
  BY <1>1 DEF arrived
<1>3. QED  BY <1>1, <1>2 DEF Meeting!Init

LEMMA MeetingStutter ==
    ASSUME session' = session,
           \A n \in App : engine'[n] = "agreed" <=> engine[n] = "agreed",
           \A n \in App : mainAt'[n] = "constructing" <=> mainAt[n] = "constructing"
    PROVE  UNCHANGED <<session, arrived>>
BY DEF arrived

(* arrived, application by application. *)
LEMMA ArrivedType ==
    /\ arrived \in [App -> BOOLEAN]
    /\ \A n \in App : session[n] = 0 => (arrived[n] <=> mainAt[n] # "constructing")
    /\ \A n \in App : session[n] # 0 => (arrived[n] <=> engine[n] = "agreed")
    /\ arrived' \in [App -> BOOLEAN]
    /\ \A n \in App : session'[n] = 0 => (arrived'[n] <=> mainAt'[n] # "constructing")
    /\ \A n \in App : session'[n] # 0 => (arrived'[n] <=> engine'[n] = "agreed")
BY DEF arrived

LEMMA ArrivedSet ==
    ASSUME NEW n \in App, NEW value \in BOOLEAN, arrived'[n] <=> value,
           \A m \in App : m # n => (arrived'[m] <=> arrived[m])
    PROVE  arrived' = [arrived EXCEPT ![n] = value]
<1>1. DEFINE new == [arrived EXCEPT ![n] = value]
<1>2. arrived' \in [App -> BOOLEAN] /\ new \in [App -> BOOLEAN]
  BY ArrivedType
<1>3. ASSUME NEW m \in App PROVE arrived'[m] = new[m]
  BY <1>2, ArrivedType
<1>4. QED  BY <1>2, <1>3

LEMMA NewZrtpMeets ==
    ASSUME TypeOK, NEW n \in App, NewZrtp(n), Goto(n, "loop")
    PROVE  /\ session' = [session EXCEPT ![n] = @ + 1]
           /\ arrived' = [arrived EXCEPT ![n] = FALSE]
<1>1. session' = [session EXCEPT ![n] = @ + 1]  BY DEF NewZrtp
<1>2. session'[n] # 0 /\ engine'[n] = "hello"  BY DEF NewZrtp, TypeOK
<1>3. \A m \in App : m # n => /\ session'[m] = session[m] /\ engine'[m] = engine[m]
                              /\ mainAt'[m] = mainAt[m]
  BY DEF NewZrtp, Goto, TypeOK
<1>4. ~ arrived'[n]  BY <1>2, ArrivedType
<1>5. \A m \in App : m # n => (arrived'[m] <=> arrived[m])
  BY <1>3, ArrivedType
<1>6. QED  BY <1>1, <1>4, <1>5, ArrivedSet

LEMMA MainThreadMeets ==
    ASSUME IInv, NEW n \in App, MainThread(n)
    PROVE  [Meeting!Next]_<<session, arrived>>
<1>1. Peer[n] \in App /\ Peer[Peer[n]] = n /\ Peer[n] # n  BY PeerFacts
<1>2. LocalInv(n) /\ LocalInv(Peer[n]) /\ PairInv(n) /\ PairInv(Peer[n]) /\ TypeOK
  BY <1>1 DEF IInv
<1>3. CASE ReleaseFirst(n)
  <2>1. session[n] = 0 /\ session[Peer[n]] = 0
    <3>1. session[n] = 0 /\ Released(n) = 0
      BY <1>2, <1>3 DEF ReleaseFirst, LocalInv, Constructed, Released
    <3>2. Acquired(Peer[n]) = 0
      BY <1>1, <1>2, <3>1, CountTypes DEF PairInv, Semaphores
    <3>3. QED  BY <1>1, <1>2, <3>1, <3>2, CountTypes DEF Acquired
  <2>2. ~ arrived[n]
    BY <1>3, <2>1 DEF arrived, ReleaseFirst
  <2>3. session' = session /\ arrived' = [arrived EXCEPT ![n] = TRUE]
    BY <1>2, <1>3, <2>1 DEF arrived, ReleaseFirst, Goto, TypeOK, engineVars
  <2>4. Meeting!Arrive(n)  BY <1>1, <2>1, <2>2, <2>3 DEF Meeting!Arrive
  <2>5. QED  BY <2>4 DEF Meeting!Next
<1>4. CASE AcquireFirst(n)
  <2>1. session[n] = 0 /\ arrived[n] /\ Acquired(n) = 0
    BY <1>2, <1>4 DEF AcquireFirst, LocalInv, Constructed, arrived, Acquired
  <2>2. session' = [session EXCEPT ![n] = @ + 1] /\ arrived' = [arrived EXCEPT ![n] = FALSE]
    BY <1>2, <1>4, NewZrtpMeets DEF AcquireFirst
  <2>3. semaphore[Mine(Peer[n])] > 0
    BY <1>4, PeerFacts DEF AcquireFirst, Acquire
  <2>4. Released(Peer[n]) > 0
    BY <1>1, <1>2, <2>1, <2>3, CountTypes DEF PairInv, Semaphores
  <2>5. mainAt[Peer[n]] # "constructing"
    BY <2>4 DEF Released
  <2>6. session[Peer[n]] \in {0, 1}
    <3>1. Released(n) = 1
      BY <1>2, <1>4, <2>1 DEF Released, AcquireFirst
    <3>2. Acquired(Peer[n]) \in {0, 1}
      BY <1>1, <1>2, <3>1, CountTypes DEF PairInv, Semaphores
    <3>3. QED  BY <1>1, <1>2, <3>2, CountTypes DEF Acquired
  <2>7. \/ session[Peer[n]] = session[n] /\ arrived[Peer[n]]
        \/ session[Peer[n]] = session[n] + 1
    BY <1>1, <2>1, <2>5, <2>6, ArrivedType
  <2>8. Meeting!Depart(n)  BY <2>1, <2>2, <2>7 DEF Meeting!Depart
  <2>9. QED  BY <2>8 DEF Meeting!Next
<1>5. CASE RestartZrtp(n)
  <2>1. restarted[n] /\ restarter[n] = "none" /\ engine[n] = "agreed" /\ session[n] # 0
    BY <1>2, <1>5 DEF RestartZrtp, ThreadsEnded, LocalInv, Restarting, Constructed
  <2>2. arrived[n]  BY <2>1 DEF arrived
  <2>3. session' = [session EXCEPT ![n] = @ + 1] /\ arrived' = [arrived EXCEPT ![n] = FALSE]
    BY <1>2, <1>5, NewZrtpMeets DEF RestartZrtp
  <2>4. Acquired(n) = session[n] + 1 /\ session[n] \in Nat
    BY <1>2, <2>1 DEF Acquired, TypeOK
  <2>5. Released(Peer[n]) >= session[n] + 1
    BY <1>1, <1>2, <2>4, CountTypes DEF PairInv, Semaphores
  <2>6. session[Peer[n]] = session[n] => arrived[Peer[n]]
    <3>1. SUFFICES ASSUME session[Peer[n]] = session[n] PROVE arrived[Peer[n]]
      OBVIOUS
    <3>2. restarted[Peer[n]] \/ mainAt[Peer[n]] = "waiting"
      BY <2>4, <2>5, <3>1 DEF Released
    <3>3. engine[Peer[n]] = "agreed"
      BY <1>2, <2>1, <3>1, <3>2 DEF LocalInv, Restarting, Constructed
    <3>4. QED  BY <1>1, <2>1, <3>1, <3>3 DEF arrived
  <2>7. \/ session[Peer[n]] = session[n] /\ arrived[Peer[n]]
        \/ session[Peer[n]] = session[n] + 1
    BY <1>2, <2>1, <2>6 DEF PairInv, Together
  <2>8. Meeting!Depart(n)  BY <2>2, <2>3, <2>7 DEF Meeting!Depart
  <2>9. QED  BY <2>8 DEF Meeting!Next
<1>6. CASE ProcessSignal(n) \/ EndZrtp(n) \/ Leave(n)
  <2>1. session' = session /\ engine' = engine
    BY <1>6 DEF ProcessSignal, ProcessTimerSignal, ProcessLastEnded, ProcessEnded,
                ProcessEndedAgain, ProcessFailed, ProcessRestart, EndZrtp, Leave, engineVars
  <2>2. mainAt[n] # "constructing"
    BY <1>6 DEF ProcessSignal, ProcessTimerSignal, ProcessLastEnded, ProcessEnded,
                ProcessEndedAgain, ProcessFailed, ProcessRestart, TakeSignal, InLoop, EndZrtp, Leave
  <2>3. \/ mainAt' = mainAt
        \/ \E place \in {"ending", "restarting", "loop", "left"} : Goto(n, place)
    BY <1>6 DEF ProcessSignal, ProcessTimerSignal, ProcessLastEnded, ProcessEnded,
                ProcessEndedAgain, ProcessFailed, ProcessRestart, EndZrtp, Leave, mainVars
  <2>4. \A m \in App : mainAt'[m] = "constructing" <=> mainAt[m] = "constructing"
    BY <1>2, <2>2, <2>3 DEF Goto, TypeOK
  <2>5. QED  BY <2>1, <2>4, MeetingStutter
<1>7. QED  BY <1>3, <1>4, <1>5, <1>6 DEF MainThread

LEMMA ProcessEventMeets ==
    ASSUME IInv, NEW n \in App, NEW thread \in threads[n],
           \/ ExchangeHello(n, thread) \/ SendCommit(n, thread) \/ AcceptCommit(n, thread)
           \/ AcceptDHPart2(n, thread) \/ AnswerKeys(n, thread)
           \/ Reject(n, thread) \/ AcceptError(n, thread) \/ AcceptErrorAck(n, thread)
           \/ AcceptConfirm2(n, thread) \/ RepeatConf2Ack(n, thread)
           \/ AcceptConf2Ack(n, thread) \/ Resend(n, thread) \/ IgnoreTimeout(n, thread)
           \/ IgnoreMessage(n, thread)
    PROVE  [Meeting!Next]_<<session, arrived>>
<1>1. PICK posts : Enter(n, thread, posts)
  BY DEF ExchangeHello, SendCommit, AcceptCommit, AcceptDHPart2, AnswerKeys, Reject, AcceptError,
         AcceptErrorAck, AcceptConfirm2, RepeatConf2Ack, AcceptConf2Ack, Resend, IgnoreTimeout, IgnoreMessage
<1>2. session' = session /\ mainAt' = mainAt /\ session[n] \in Nat /\ session[n] > 0
  BY <1>1, EnterFacts DEF mainVars
<1>3. Peer[n] \in App  BY PeerFacts
<1>4. DOMAIN engine = App  BY DEF IInv, TypeOK
<1>5. CASE AcceptConfirm2(n, thread) \/ AcceptConf2Ack(n, thread)
  <2>1. engine[n] = "keys" /\ engine' = [engine EXCEPT ![n] = "agreed"]
    BY <1>5 DEF AcceptConfirm2, AcceptConf2Ack
  <2>2. session[Peer[n]] = session[n]
    <3>1. CASE AcceptConfirm2(n, thread)
      BY <2>1, <3>1, PairFacts DEF AcceptConfirm2, Together
    <3>2. CASE AcceptConf2Ack(n, thread)
      BY <2>1, <3>2, PairFacts DEF AcceptConf2Ack, Together, HasThread
    <3>3. QED  BY <1>5, <3>1, <3>2
  <2>3. ~ arrived[n] /\ arrived'[n]
    BY <1>2, <1>4, <2>1, ArrivedType
  <2>4. \A m \in App : m # n => (arrived'[m] <=> arrived[m])
    BY <1>2, <1>4, <2>1, ArrivedType
  <2>5. arrived' = [arrived EXCEPT ![n] = TRUE]
    BY <2>3, <2>4, ArrivedSet
  <2>6. Meeting!Arrive(n)  BY <1>2, <2>2, <2>3, <2>5 DEF Meeting!Arrive
  <2>7. QED  BY <2>6 DEF Meeting!Next
<1>6. CASE \/ SendCommit(n, thread) \/ AcceptCommit(n, thread) \/ Reject(n, thread)
           \/ AcceptErrorAck(n, thread)
  <2>1. engine[n] # "agreed"
    BY <1>6 DEF SendCommit, AcceptCommit, Reject, AcceptErrorAck, Running
  <2>2. \E stand \in {"keys", "failing", "failed"} : engine' = [engine EXCEPT ![n] = stand]
    BY <1>6 DEF SendCommit, AcceptCommit, Reject, AcceptErrorAck
  <2>3. \A m \in App : engine'[m] = "agreed" <=> engine[m] = "agreed"
    BY <1>4, <2>1, <2>2
  <2>4. QED  BY <1>2, <2>3, MeetingStutter
<1>7. CASE AcceptError(n, thread)
  <2>1. engine[n] # "agreed"
    BY <1>2, <1>7, PairFacts DEF AcceptError, Together, HasThread
  <2>2. engine' = [engine EXCEPT ![n] = "failed"]  BY <1>7 DEF AcceptError
  <2>3. \A m \in App : engine'[m] = "agreed" <=> engine[m] = "agreed"
    BY <1>4, <2>1, <2>2
  <2>4. QED  BY <1>2, <2>3, MeetingStutter
<1>8. CASE \/ ExchangeHello(n, thread) \/ AcceptDHPart2(n, thread) \/ AnswerKeys(n, thread)
           \/ RepeatConf2Ack(n, thread) \/ Resend(n, thread) \/ IgnoreTimeout(n, thread) \/ IgnoreMessage(n, thread)
  <2>1. engine' = engine
    BY <1>8 DEF ExchangeHello, AcceptDHPart2, AnswerKeys, RepeatConf2Ack, Resend, IgnoreTimeout,
                IgnoreMessage
  <2>2. QED  BY <1>2, <2>1, MeetingStutter
<1>9. QED  BY <1>5, <1>6, <1>7, <1>8

LEMMA MeetingNext == IInv /\ [Next]_vars => [Meeting!Next]_<<session, arrived>>
<1> SUFFICES ASSUME IInv, [Next]_vars PROVE [Meeting!Next]_<<session, arrived>>
  OBVIOUS
<1>1. CASE UNCHANGED vars
  BY <1>1, MeetingStutter DEF vars, mainVars, engineVars
<1>2. ASSUME NEW n \in App, MainThread(n) PROVE [Meeting!Next]_<<session, arrived>>
  BY <1>2, MainThreadMeets
<1>3. ASSUME NEW n \in App, ProcessEvent(n) PROVE [Meeting!Next]_<<session, arrived>>
  BY <1>3, ProcessEventMeets DEF ProcessEvent
<1>4. ASSUME NEW n \in App, NEW kind \in Kind,
             \/ ProcessPendingDatagram(n, kind) \/ CreateTimeoutThread(n)
             \/ Post(n) \/ Restart(n)
      PROVE  [Meeting!Next]_<<session, arrived>>
  <2>1. session' = session /\ engine' = engine /\ mainAt' = mainAt
    BY <1>4 DEF ProcessPendingDatagram, CreateTimeoutThread, Post, Restart, RestarterAcquires,
                RestarterSignals, engineVars, mainVars
  <2>2. QED  BY <2>1, MeetingStutter
<1>5. Kind # {}  BY DEF Kind
<1>6. QED  BY <1>1, <1>2, <1>3, <1>4, <1>5 DEF Next

(* The event loops, mailboxes, Restarter threads and semaphores of the two *)
(* applications implement the rendezvous: neither starts a key agreement   *)
(* before both have ended the last one well, for any number of them.       *)
THEOREM RendezvousImplemented == Spec => ImplementsRendezvous
<1>1. Spec => Meeting!Spec
  BY MeetingInit, MeetingNext, InvCorrect, PTL DEF Spec, Meeting!Spec
<1>2. QED  BY <1>1 DEF ImplementsRendezvous

-----------------------------------------------------------------------------
(* The timer. *)

StartingPosts == {<<"activateTimer">>, <<"stopTimer", "activateTimer">>}

(* What is still to be set decides, then what is still to be read. *)
TimerInv(n) ==
    engine[n] \in Active =>
       IF posting[n] # <<>> THEN posting[n] \in StartingPosts <=> wanted[n] = "running"
       ELSE IF signals[n] > 0 THEN actualSignal[n] = "activateTimer" <=> wanted[n] = "running"
       ELSE /\ wanted[n] # "running" => ~ timer[n]
            /\ wanted[n] = "running" /\ handler[n] = "resends" =>
                 timer[n] \/ HasThread(n, "timeout")

TimersInv == \A n \in App : TimerInv(n)

LEMMA AskedFacts ==
    ASSUME NEW n \in App, NEW posts \in TimerPosts
    PROVE  /\ posts = <<>> => Asked(n, posts) = wanted[n]
           /\ posts # <<>> => (posts \in StartingPosts <=> Asked(n, posts) = "running")
<1>1. CASE posts = <<>>  BY <1>1 DEF Asked
<1>2. CASE posts = <<"activateTimer">>  BY <1>2 DEF Asked, StartingPosts
<1>3. CASE posts = <<"stopTimer">>  BY <1>3 DEF Asked, StartingPosts
<1>4. CASE posts = <<"stopTimer", "activateTimer">>  BY <1>4 DEF Asked, StartingPosts
<1>5. QED  BY <1>1, <1>2, <1>3, <1>4 DEF TimerPosts

(* A handler that goes on tells the timer what the engine wants of it. *)
LEMMA EventTimer ==
    ASSUME IInv, TimersInv, NEW n \in App, NEW thread \in threads[n], NEW posts,
           Enter(n, thread, posts), engine'[n] \in Active => engine[n] \in Active,
           engine'[n] \in Active /\ posts # <<>> =>
             (posts \in StartingPosts <=> wanted'[n] = "running"),
           engine'[n] \in Active /\ posts = <<>> =>
             /\ wanted'[n] = wanted[n]
             /\ handler'[n] = "resends" => handler[n] = "resends" /\ thread.kind # "timeout"
    PROVE  TimerInv(n)'
<1>1. TimerInv(n)  BY DEF TimersInv
<1>2. /\ posting[n] = <<>> /\ posting'[n] = posts
      /\ UNCHANGED signalVars
  BY EnterFacts
<1>3. threads'[n] = threads[n] \ {thread}
  BY DEF Enter, IInv, TypeOK
<1>4. thread.kind # "timeout" /\ HasThread(n, "timeout") => HasThread(n, "timeout")'
  BY <1>3 DEF HasThread
<1>5. CASE engine'[n] \in Active /\ posts = <<>>
  BY <1>1, <1>2, <1>4, <1>5 DEF TimerInv, signalVars
<1>6. CASE engine'[n] \in Active /\ posts # <<>>
  BY <1>2, <1>6 DEF TimerInv
<1>7. QED  BY <1>5, <1>6 DEF TimerInv

LEMMA ProcessEventTimer ==
    ASSUME IInv, TimersInv, NEW n \in App, NEW thread \in threads[n],
           \/ ExchangeHello(n, thread) \/ SendCommit(n, thread) \/ AcceptCommit(n, thread)
           \/ AcceptDHPart2(n, thread) \/ AnswerKeys(n, thread)
           \/ Reject(n, thread) \/ AcceptError(n, thread) \/ AcceptErrorAck(n, thread)
           \/ AcceptConfirm2(n, thread) \/ RepeatConf2Ack(n, thread)
           \/ AcceptConf2Ack(n, thread) \/ Resend(n, thread) \/ IgnoreTimeout(n, thread)
           \/ IgnoreMessage(n, thread)
    PROVE  TimerInv(n)'
<1>1. /\ DOMAIN wanted = App /\ DOMAIN engine = App /\ DOMAIN handler = App
      /\ <<"stopTimer">> # <<>> /\ <<"stopTimer">> \notin StartingPosts
  BY PostFacts DEF IInv, TypeOK, StartingPosts, Signal
<1>2. CASE ExchangeHello(n, thread)
  <2>1. PICK posts \in TimerPosts :
          /\ Enter(n, thread, posts) /\ Ask(n, Asked(n, posts))
          /\ posts # <<"stopTimer">> => handler' = handler
    BY <1>2 DEF ExchangeHello
  <2>2. wanted'[n] = Asked(n, posts)  BY <1>1, <2>1 DEF Ask
  <2>3. engine[n] \in Active /\ thread.kind = "message"
    BY <1>2 DEF ExchangeHello, Active
  <2>4. posts = <<>> => handler' = handler  BY <1>1, <2>1
  <2>5. QED  BY <2>1, <2>2, <2>3, <2>4, AskedFacts, EventTimer
<1>11. CASE SendCommit(n, thread)
  <2>1. PICK posts \in StartingPosts : Enter(n, thread, posts)
    BY <1>11 DEF SendCommit, StartingPosts
  <2>2. wanted'[n] = "running" /\ engine[n] \in Active /\ posts # <<>>
    BY <1>1, <1>11, <2>1 DEF SendCommit, Ask, Active, StartingPosts
  <2>3. QED  BY <2>1, <2>2, EventTimer
<1>12. CASE AcceptCommit(n, thread)
  <2>1. Enter(n, thread, <<>>) /\ wanted' = wanted /\ handler'[n] = "cancels"
        /\ engine[n] \in Active
    BY <1>1, <1>12 DEF AcceptCommit, HandleAs, Active
  <2>2. QED  BY <2>1, EventTimer
<1>13. CASE AcceptDHPart2(n, thread)
  <2>1. Enter(n, thread, <<"stopTimer">>) /\ wanted'[n] = "stopped" /\ engine[n] \in Active
    BY <1>1, <1>13 DEF AcceptDHPart2, Ask, Active
  <2>2. QED  BY <1>1, <2>1, EventTimer
<1>3. CASE AnswerKeys(n, thread)
  <2>1. Enter(n, thread, <<"stopTimer", "activateTimer">>) /\ wanted'[n] = "running"
        /\ engine[n] \in Active
    BY <1>1, <1>3 DEF AnswerKeys, Ask, Active
  <2>2. QED  BY <2>1, EventTimer DEF StartingPosts
<1>4. CASE Reject(n, thread)
  <2>1. PICK posts \in StartingPosts : Enter(n, thread, posts)
    BY <1>4 DEF Reject, StartingPosts
  <2>2. wanted'[n] = "running" /\ engine[n] \in Active /\ posts # <<>>
    BY <1>1, <1>4, <2>1 DEF Reject, Ask, Running, Active, StartingPosts
  <2>3. QED  BY <2>1, <2>2, EventTimer
<1>5. CASE \/ AcceptError(n, thread) \/ AcceptErrorAck(n, thread)
           \/ AcceptConfirm2(n, thread) \/ AcceptConf2Ack(n, thread)
  BY <1>1, <1>5 DEF AcceptError, AcceptErrorAck, AcceptConfirm2, AcceptConf2Ack, TimerInv, Active
<1>6. CASE RepeatConf2Ack(n, thread)
  BY <1>6 DEF RepeatConf2Ack, TimerInv, Active
<1>7. CASE Resend(n, thread)
  <2>1. engine[n] \in Active  BY <1>7 DEF Resend, Running, Active
  <2>2. CASE Enter(n, thread, <<"activateTimer">>) /\ Ask(n, "running")
    <3>1. wanted'[n] = "running"  BY <1>1, <2>2 DEF Ask
    <3>2. QED  BY <2>1, <2>2, <3>1, EventTimer DEF StartingPosts
  <2>3. CASE Enter(n, thread, <<"stopTimer">>) /\ Ask(n, "givenUp")
    <3>1. wanted'[n] = "givenUp"  BY <1>1, <2>3 DEF Ask
    <3>2. QED  BY <1>1, <2>1, <2>3, <3>1, EventTimer
  <2>4. QED  BY <1>7, <2>2, <2>3 DEF Resend
<1>8. CASE IgnoreTimeout(n, thread)
  BY <1>8, EventTimer DEF IgnoreTimeout
<1>9. CASE IgnoreMessage(n, thread)
  <2>1. UNCHANGED <<engine, handler>> /\ thread.kind # "timeout"
    BY <1>9 DEF IgnoreMessage
  <2>2. CASE Enter(n, thread, <<>>) /\ UNCHANGED wanted
    BY <2>1, <2>2, EventTimer
  <2>3. CASE Enter(n, thread, <<"stopTimer">>) /\ Ask(n, "stopped")
    <3>1. wanted'[n] = "stopped"  BY <1>1, <2>3 DEF Ask
    <3>2. QED  BY <1>1, <2>1, <2>3, <3>1, EventTimer
  <2>4. QED  BY <1>9, <2>2, <2>3 DEF IgnoreMessage
<1>10. QED  BY <1>2, <1>3, <1>4, <1>5, <1>6, <1>7, <1>8, <1>9, <1>11, <1>12, <1>13

LEMMA PostTimer ==
    ASSUME IInv, TimersInv, NEW n \in App, Post(n)
    PROVE  TimerInv(n)'
<1>1. /\ posting[n] # <<>> /\ posting'[n] = Tail(posting[n])
      /\ actualSignal'[n] = Head(posting[n]) /\ signals'[n] > 0
      /\ UNCHANGED <<engine, wanted>>
  BY DEF Post, IInv, TypeOK, engineVars
<1>2. TimerInv(n) /\ LocalInv(n)  BY DEF TimersInv, IInv
<1>3. SUFFICES ASSUME engine[n] \in Active PROVE TimerInv(n)'
  BY <1>1 DEF TimerInv
<1>4. posting[n] \in {<<"activateTimer">>, <<"stopTimer">>, <<"stopTimer", "activateTimer">>}
  BY <1>1, <1>2, <1>3 DEF LocalInv, Mail, TimerPosts, Active
<1>5. CASE posting[n] = <<"activateTimer">>
  BY <1>1, <1>2, <1>3, <1>5 DEF TimerInv, StartingPosts
<1>6. CASE posting[n] = <<"stopTimer">>
  <2>1. <<"stopTimer">> \notin StartingPosts
    BY PostFacts DEF StartingPosts, Signal
  <2>2. posting'[n] = <<>> /\ actualSignal'[n] = "stopTimer"
    BY <1>1, <1>6
  <2>3. wanted[n] # "running"
    BY <1>1, <1>2, <1>3, <1>6, <2>1 DEF TimerInv
  <2>4. QED  BY <1>1, <2>2, <2>3 DEF TimerInv
<1>7. CASE posting[n] = <<"stopTimer", "activateTimer">>
  <2>1. posting'[n] = <<"activateTimer">> /\ posting'[n] # <<>>
    BY <1>1, <1>7
  <2>2. wanted[n] = "running"
    BY <1>1, <1>2, <1>3, <1>7 DEF TimerInv, StartingPosts
  <2>3. QED  BY <1>1, <2>1, <2>2 DEF TimerInv, StartingPosts
<1>8. QED  BY <1>4, <1>5, <1>6, <1>7

LEMMA MainThreadTimer ==
    ASSUME IInv, TimersInv, NEW n \in App, MainThread(n)
    PROVE  TimerInv(n)'
<1>1. TimerInv(n) /\ LocalInv(n)  BY DEF TimersInv, IInv
<1>2. CASE ReleaseFirst(n) \/ EndZrtp(n) \/ Leave(n)
  BY <1>1, <1>2 DEF ReleaseFirst, EndZrtp, Leave, TimerInv, HasThread, signalVars, threadVars,
                    engineVars
<1>3. CASE AcquireFirst(n) \/ RestartZrtp(n)
  <2>1. /\ wanted'[n] = "running" /\ actualSignal'[n] = "activateTimer" /\ timer'[n]
        /\ posting' = posting
    BY <1>3 DEF AcquireFirst, RestartZrtp, NewZrtp, threadVars, IInv, TypeOK
  <2>2. posting[n] = <<>>
    BY <1>1, <1>3 DEF AcquireFirst, RestartZrtp, ThreadsEnded, LocalInv, Constructed
  <2>3. QED  BY <2>1, <2>2 DEF TimerInv
<1>4. CASE ProcessTimerSignal(n)
  <2>1. /\ signals[n] > 0 /\ signals[n] \in Nat /\ signals'[n] = signals[n] - 1
        /\ actualSignal' = actualSignal
        /\ UNCHANGED <<posting, threads, engine, wanted>>
        /\ \/ actualSignal[n] = "activateTimer" /\ timer'[n]
           \/ actualSignal[n] = "stopTimer" /\ ~ timer'[n]
    BY <1>4 DEF ProcessTimerSignal, TakeSignal, IInv, TypeOK, threadVars, engineVars
  <2>2. QED  BY <1>1, <2>1 DEF TimerInv
<1>5. CASE \/ ProcessLastEnded(n) \/ ProcessEnded(n) \/ ProcessEndedAgain(n)
           \/ ProcessFailed(n) \/ ProcessRestart(n)
  <2>1. actualSignal[n] \in {"zrtpEnded", "zrtpFailed", "zrtpRestart"} /\ engine' = engine
    BY <1>5 DEF ProcessLastEnded, ProcessEnded, ProcessEndedAgain, ProcessFailed, ProcessRestart,
                TakeSignal, engineVars
  <2>2. engine[n] \notin Active
    BY <1>1, <2>1 DEF LocalInv, Mail, Active, TimerSignal
  <2>3. QED  BY <2>1, <2>2 DEF TimerInv
<1>6. QED  BY <1>2, <1>3, <1>4, <1>5 DEF MainThread, ProcessSignal

LEMMA ThreadTimer ==
    ASSUME IInv, TimersInv, NEW n \in App, NEW kind,
           \/ ProcessPendingDatagram(n, kind) \/ CreateTimeoutThread(n) \/ Restart(n)
    PROVE  TimerInv(n)'
<1>1. TimerInv(n) /\ LocalInv(n)  BY DEF TimersInv, IInv
<1>2. CASE ProcessPendingDatagram(n, kind)
  <2>1. /\ threads[n] \subseteq threads'[n]
        /\ UNCHANGED <<posting, signalVars, engineVars>>
    BY <1>2 DEF ProcessPendingDatagram, StartThread, IInv, TypeOK
  <2>2. QED  BY <1>1, <2>1 DEF TimerInv, HasThread, signalVars, engineVars
<1>3. CASE CreateTimeoutThread(n)
  <2>1. /\ [kind |-> "timeout", session |-> session[n]] \in threads'[n]
        /\ ~ timer'[n] /\ UNCHANGED <<posting, actualSignal, signals, engineVars>>
    BY <1>3 DEF CreateTimeoutThread, StartThread, IInv, TypeOK
  <2>2. HasThread(n, "timeout")'  BY <2>1 DEF HasThread
  <2>3. QED  BY <1>1, <2>1, <2>2 DEF TimerInv, engineVars
<1>4. CASE RestarterAcquires(n)
  BY <1>1, <1>4 DEF RestarterAcquires, TimerInv, HasThread, signalVars, engineVars
<1>5. CASE RestarterSignals(n)
  <2>1. engine[n] \notin Active
    BY <1>1, <1>5 DEF RestarterSignals, LocalInv, Restarting, Active
  <2>2. QED  BY <1>5, <2>1 DEF RestarterSignals, TimerInv, engineVars
<1>6. QED  BY <1>2, <1>3, <1>4, <1>5 DEF Restart

LEMMA TimersNext == IInv /\ TimersInv /\ [Next]_vars => TimersInv'
<1> SUFFICES ASSUME IInv, TimersInv, [Next]_vars, NEW m \in App PROVE TimerInv(m)'
  BY DEF TimersInv
<1>1. CASE UNCHANGED vars
  BY <1>1 DEF TimersInv, TimerInv, HasThread, vars, signalVars, threadVars, engineVars
<1>2. ASSUME NEW n \in App, NEW kind \in Kind,
             \/ MainThread(n) \/ ProcessPendingDatagram(n, kind) \/ CreateTimeoutThread(n)
             \/ ProcessEvent(n) \/ Post(n) \/ Restart(n)
      PROVE  TimerInv(m)'
  <2>1. TimerInv(n)'
    BY <1>2, MainThreadTimer, ThreadTimer, ProcessEventTimer, PostTimer DEF ProcessEvent
  <2>2. m # n => TimerInv(m)'
    <3>1. SUFFICES ASSUME m # n PROVE TimerInv(m)'
      OBVIOUS
    <3>2. /\ engine'[m] = engine[m] /\ posting'[m] = posting[m] /\ signals'[m] = signals[m]
          /\ actualSignal'[m] = actualSignal[m] /\ wanted'[m] = wanted[m]
          /\ timer'[m] = timer[m] /\ threads'[m] = threads[m] /\ handler'[m] = handler[m]
      <4>1. CASE MainThread(n)
        BY <3>1, <4>1
        DEF MainThread, ReleaseFirst, AcquireFirst, ProcessSignal, ProcessTimerSignal,
            ProcessLastEnded, ProcessEnded, ProcessEndedAgain, ProcessFailed, ProcessRestart,
            RestartZrtp, EndZrtp, Leave, TakeSignal, NewZrtp, signalVars, threadVars, engineVars,
            IInv, TypeOK
      <4>2. CASE ProcessPendingDatagram(n, kind) \/ CreateTimeoutThread(n) \/ Post(n) \/ Restart(n)
        BY <3>1, <4>2
        DEF ProcessPendingDatagram, CreateTimeoutThread, StartThread, Post, Restart,
            RestarterAcquires, RestarterSignals, signalVars, engineVars, IInv, TypeOK
      <4>3. CASE ProcessEvent(n)
        BY <3>1, <4>3
        DEF ProcessEvent, ExchangeHello, SendCommit, AcceptCommit, AcceptDHPart2, AnswerKeys,
            Reject, AcceptError, AcceptErrorAck, AcceptConfirm2, RepeatConf2Ack, AcceptConf2Ack,
            Resend, IgnoreTimeout, IgnoreMessage, Ask, HandleAs, Enter, signalVars, IInv, TypeOK
      <4>4. QED  BY <1>2, <4>1, <4>2, <4>3
    <3>3. QED  BY <3>2 DEF TimersInv, TimerInv, HasThread
  <2>3. QED  BY <2>1, <2>2
<1>3. Kind # {}  BY DEF Kind
<1>4. QED  BY <1>1, <1>2, <1>3 DEF Next

(* Whatever signals overwrote each other, the timer ends up as the engine  *)
(* asked for it last, unless its timeout has been ignored meanwhile by a   *)
(* handler that does not resend.                                           *)
THEOREM TimersFollow == Spec => []TimerFollows
<1>1. Init => TimersInv
  BY DEF Init, TimersInv, TimerInv, Active
<1>2. IInv /\ TimersInv => TimerFollows
  BY DEF TimersInv, TimerInv, TimerFollows, Active, Running, HasThread, IInv, TypeOK
<1>3. QED  BY <1>1, <1>2, TimersNext, InvCorrect, PTL DEF Spec
=============================================================================
