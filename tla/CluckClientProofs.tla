------------------------ MODULE CluckClientProofs ------------------------
(***************************************************************************)
(* Every lock() that returned true is followed by one finally(), and on    *)
(* the way there the timer of the object always runs.  The functions of    *)
(* the object are sets of outcomes, so each gets a lemma about all of its  *)
(* outcomes; the functions that call one another cite each other's lemmas. *)
(***************************************************************************)
EXTENDS CluckClient, TLAPS

\* An object between two calls.
Good(o) ==
  /\ o \in ObjectRecord
  /\ o.listening => /\ o.open = 1 /\ o.enabled
                    /\ o.state \in {"LOCKING", "LOCKED", "UNLOCKING"}
  /\ ~o.listening => o.open = 0 /\ o.state \in {"IDLE", "FAILED"}

IInv == Good(object) /\ mail \in Seq(Notice) /\ service \in ServiceRecord

-----------------------------------------------------------------------------
(* The functions of the object.                                            *)

\* What goes out is a request, after those that are on their way.
LEMMA RequestSent ==
  ASSUME NEW o \in ObjectRecord, NEW type \in {"LOCK", "UNLOCK"}, NEW left \in Nat
  PROVE  Append(o.sent, [type |-> type, left |-> left]) \in Seq(Request)
<1>1. o.sent \in Seq(Request) /\ [type |-> type, left |-> left] \in Request
  BY DEF ObjectRecord, Request
<1> HIDE DEF Request
<1> QED BY <1>1

LEMMA LockSentGood ==
  ASSUME NEW o \in ObjectRecord, o.open = 0
  PROVE  Good(LockSent(o))
<1>1. Append(o.sent, [type |-> "LOCK", left |-> Obtention]) \in Seq(Request)
  BY RequestSent, ClientAssumption
<1> DEFINE p == Arm(o, Obtention)
<1>2. p \in ObjectRecord /\ p.open = 0 /\ p.enabled /\ p.sent = o.sent
  BY ClientAssumption DEF Arm, ObjectRecord
<1>3. LockSent(o) = [p EXCEPT !.state = "LOCKING", !.listening = TRUE, !.open = @ + 1,
                              !.sent = Append(@, [type |-> "LOCK", left |-> Obtention])]
  BY DEF LockSent
<1> HIDE DEF p
<1>4. p.open + 1 = 1
  BY <1>2
<1>5. LockSent(o) = [p EXCEPT !.state = "LOCKING", !.listening = TRUE, !.open = 1,
                              !.sent = Append(p.sent, [type |-> "LOCK", left |-> Obtention])]
  BY <1>3, <1>4
<1> DEFINE requests == Append(p.sent, [type |-> "LOCK", left |-> Obtention])
<1>6. requests \in Seq(Request)
  BY <1>1, <1>2
<1> HIDE DEF requests
<1>7. LockSent(o) = [p EXCEPT !.state = "LOCKING", !.listening = TRUE, !.open = 1, !.sent = requests]
  BY <1>5 DEF requests
<1> QED BY <1>2, <1>6, <1>7 DEF Good, ObjectRecord

LEMMA UnlockSentTyped ==
  ASSUME NEW o \in ObjectRecord
  PROVE  UnlockSent(o) \in ObjectRecord
<1>1. Append(o.sent, [type |-> "UNLOCK", left |-> 0]) \in Seq(Request)
  BY RequestSent
<1> QED BY <1>1, ClientAssumption DEF UnlockSent, Arm, ObjectRecord

\* cluck::lock() does nothing to a busy object; its LOCK comes with a timer.
LEMMA LockGood ==
  ASSUME NEW o, Good(o)
  PROVE  \A p \in Lock(o) : Good(p)
<1>2. [o EXCEPT !.state = "FAILED"] \in ObjectRecord
  BY DEF Good, ObjectRecord
<1>3. CASE IsBusy(o)
  BY <1>3 DEF Lock
<1>4. CASE ~IsBusy(o)
  <2>1. ~o.listening /\ o.open = 0 /\ o \in ObjectRecord
    BY <1>4 DEF Good, IsBusy
  <2>2. Good([o EXCEPT !.state = "FAILED"])
    BY <1>2, <2>1 DEF Good, ObjectRecord
  <2>3. Good(LockSent(o))
    BY <2>1, LockSentGood
  <2> QED BY <1>4, <2>2, <2>3 DEF Lock
<1> QED BY <1>3, <1>4

\* cluck::finally() ends the lock in progress, and may begin the next one.
LEMMA FinallyGood ==
  ASSUME NEW o \in ObjectRecord, o.open = 1
  PROVE  \A p \in Finally(o) : Good(p)
<1> DEFINE q == [o EXCEPT !.state = "IDLE", !.listening = FALSE, !.open = @ - 1, !.turn = (@ + 1) % 3]
<1>1. Good(q)
  <2>1. o.turn \in 0..2 /\ o.open - 1 = 0
    BY DEF ObjectRecord
  <2>2. (o.turn + 1) % 3 \in 0..2
    BY <2>1
  <2> QED BY <2>1, <2>2 DEF Good, ObjectRecord
<1>2. \A p \in Lock(q) : Good(p)
  BY <1>1, LockGood
<1> HIDE DEF q
<1>3. Finally(o) = {q} \cup Lock(q)
  BY DEF Finally, q
<1> QED BY <1>1, <1>2, <1>3

\* cluck::lock_failed() leaves the end of the lock to finally().
LEMMA FailedGood ==
  ASSUME NEW o \in ObjectRecord, o.open = 1
  PROVE  \A p \in Failed(o) : Good(p)
<1>1. LockFailed(o) \in ObjectRecord /\ LockFailed(o).open = 1
  BY DEF LockFailed, Disarm, ObjectRecord
<1> QED BY <1>1, FinallyGood DEF Failed

\* cluck::unlock() either waits for an answer under a timer, or ends the lock itself.
LEMMA UnlockGood ==
  ASSUME NEW o, Good(o)
  PROVE  \A p \in Unlock(o) : Good(p)
<1>1. CASE o.state \notin {"LOCKED", "LOCKING"}
  BY <1>1 DEF Unlock
<1>2. CASE o.state \in {"LOCKED", "LOCKING"}
  <2>1. o \in ObjectRecord /\ o.open = 1 /\ o.listening
    BY <1>2 DEF Good
  <2> DEFINE q == [o EXCEPT !.lockLeft = 0, !.state = "FAILED"]
  <2>2. q \in ObjectRecord /\ q.open = 1
    BY <2>1 DEF ObjectRecord
  <2> HIDE DEF q
  <2>3. \A p \in Failed(q) : Good(p)
    BY <2>2, FailedGood
  <2>4. UnlockSent(o) \in ObjectRecord
    BY <2>1, UnlockSentTyped
  <2>5. Good(UnlockSent(o))
    BY <2>1, <2>4 DEF Good, UnlockSent, Arm, ObjectRecord
  <2>6. Unlock(o) = Failed(q) \cup {p \in {UnlockSent(o)} : Room(o)}
    BY <1>2 DEF Unlock, q
  <2> QED BY <2>3, <2>5, <2>6
<1> QED BY <1>1, <1>2

\* cluck::lock_obtained(): unlock() may be called twice, the second time on another lock.
LEMMA LockObtainedGood ==
  ASSUME NEW o, Good(o)
  PROVE  \A p \in LockObtained(o) : Good(p)
<1> DEFINE left == {o} \cup Unlock(o)
<1>1. \A p \in left : Good(p)
  BY UnlockGood
<1> HIDE DEF left
<1>2. \A p \in left : \A q \in Unlock(p) : Good(q)
  BY <1>1, UnlockGood
<1>3. LockObtained(o) = IF o.simple THEN UNION {Unlock(p) : p \in left} ELSE left
  BY DEF LockObtained, left
<1> QED BY <1>1, <1>2, <1>3

LEMMA LessNat == \A n \in Nat : Less(n) \in Nat
  BY DEF Less

-----------------------------------------------------------------------------
(* The invariant.                                                          *)

LEMMA InitGood == Init => IInv
  BY DEF Init, IInv, Good, NewObject, ObjectRecord, NoTicket, ServiceRecord

LEMMA AnswerTyped ==
  ASSUME mail \in Seq(Notice), NEW n \in Notice, Answer(n)
  PROVE  mail' \in Seq(Notice)
  BY DEF Answer

LEMMA NoteTyped ==
  \A type \in {"LOCKED", "LOCK_FAILED", "UNLOCKING", "UNLOCKED"} : Note(type) \in Notice
  BY DEF Note, Notice

LEMMA HearsTyped ==
  ASSUME mail \in Seq(Notice), service \in ServiceRecord, NEW type, Hears(type)
  PROVE  mail' \in Seq(Notice) /\ service' \in ServiceRecord /\ Head(mail) \in Notice
  BY DEF Hears

LEMMA TakenGood ==
  ASSUME Good(object), NEW type, Taken(type)
  PROVE  Good(object') /\ Head(object.sent) \in Request
<1>1. object.sent \in Seq(Request) /\ object.sent # <<>>
  BY DEF Good, ObjectRecord, Taken
<1>2. Tail(object.sent) \in Seq(Request) /\ Head(object.sent) \in Request
  BY <1>1
<1> HIDE DEF Request
<1> QED BY <1>2 DEF Good, ObjectRecord, Taken

LEMMA UserGood == IInv /\ User => IInv'
<1> SUFFICES ASSUME IInv, User PROVE IInv'
  OBVIOUS
<1>1. Good(object')
  BY LockGood, UnlockGood DEF IInv, User, UserLocks, UserUnlocks, Becomes
<1> QED BY <1>1 DEF IInv, User, UserLocks, UserUnlocks, Good

\* The timer of an object that is not locking, locked or unlocking does nothing.
LEMMA TimeoutGood == IInv /\ Timeout => IInv'
<1> SUFFICES ASSUME IInv, Timeout PROVE IInv'
  OBVIOUS
<1> DEFINE o == Disarm(object)
<1>1. o \in ObjectRecord /\ o.open = object.open /\ o.state = object.state
  BY DEF IInv, Good, Disarm, ObjectRecord
<1>2. PICK p \in CASE o.state \in {"LOCKING", "UNLOCKING"} -> Failed(o)
                   [] o.state = "LOCKED" -> Unlock(o)
                   [] OTHER -> {o} : object' = p
  BY DEF Timeout, Becomes
<1>3. Good(object')
  <2>1. CASE o.state \in {"LOCKING", "UNLOCKING"}
    <3>1. o.open = 1
      BY <1>1, <2>1 DEF IInv, Good
    <3> HIDE DEF o
    <3> QED BY <1>1, <1>2, <2>1, <3>1, FailedGood
  <2>2. CASE o.state = "LOCKED"
    <3>1. o.open = 1 /\ o.listening
      BY <1>1, <2>2 DEF IInv, Good, Disarm, ObjectRecord
    <3> DEFINE q == [o EXCEPT !.lockLeft = 0, !.state = "FAILED"]
    <3> HIDE DEF o
    <3>2. q \in ObjectRecord /\ q.open = 1
      BY <1>1, <3>1 DEF ObjectRecord
    <3>3. Good(UnlockSent(o))
      BY <1>1, <3>1, UnlockSentTyped DEF Good, UnlockSent, Arm, ObjectRecord
    <3> HIDE DEF q
    <3>4. \A r \in Failed(q) : Good(r)
      BY <3>2, FailedGood
    <3>5. Unlock(o) = Failed(q) \cup {r \in {UnlockSent(o)} : Room(o)}
      BY <2>2 DEF Unlock, q
    <3> QED BY <1>2, <2>2, <3>3, <3>4, <3>5
  <2>3. CASE o.state \notin {"LOCKING", "UNLOCKING", "LOCKED"}
    <3>1. object' = o
      BY <1>2, <2>3
    <3>2. ~object.listening
      BY <1>1, <2>3 DEF IInv, Good
    <3> QED BY <1>1, <3>1, <3>2 DEF IInv, Good, Disarm, ObjectRecord
  <2> QED BY <2>1, <2>2, <2>3
<1> QED BY <1>3 DEF IInv, Timeout, Good

LEMMA HearGood == IInv /\ Hear => IInv'
<1> SUFFICES ASSUME IInv, Hear PROVE IInv'
  OBVIOUS
<1> USE DEF IInv
<1>1. CASE Deaf
  BY <1>1, HearsTyped DEF Deaf
<1>2. CASE MsgLocked
  <2> DEFINE m == Head(mail)
             o == [Arm(object, m.lock) EXCEPT
                    !.state = "LOCKED", !.lockLeft = m.lock, !.overLeft = m.over]
  <2>1. m \in Notice /\ mail' \in Seq(Notice) /\ service' \in ServiceRecord
    BY <1>2, HearsTyped DEF MsgLocked
  <2>2. m.lock \in Nat /\ m.over \in Nat
    BY <2>1 DEF Notice
  <2> HIDE DEF m
  <2>3. Good(o)
    BY <1>2, <2>2 DEF Good, Arm, ObjectRecord, MsgLocked
  <2>4. \E p \in LockObtained(o) : object' = p
    BY <1>2 DEF MsgLocked, Becomes, m
  <2> HIDE DEF o
  <2> QED BY <2>1, <2>3, <2>4, LockObtainedGood
<1>3. CASE MsgLockFailed
  <2>1. object \in ObjectRecord /\ object.open = 1
    BY <1>3 DEF MsgLockFailed, Good
  <2>2. mail' \in Seq(Notice) /\ service' \in ServiceRecord
    BY <1>3, HearsTyped DEF MsgLockFailed
  <2> QED BY <1>3, <2>1, <2>2, FailedGood DEF MsgLockFailed, Becomes
<1>4. CASE MsgUnlocked
  <2>1. Disarm(object) \in ObjectRecord /\ Disarm(object).open = 1
    BY <1>4 DEF MsgUnlocked, Good, Disarm, ObjectRecord
  <2>2. mail' \in Seq(Notice) /\ service' \in ServiceRecord
    BY <1>4, HearsTyped DEF MsgUnlocked
  <2> QED BY <1>4, <2>1, <2>2, FailedGood, FinallyGood DEF MsgUnlocked, Becomes
<1>5. CASE MsgUnlocking
  <2>1. object \in ObjectRecord /\ object.open = 1
    BY <1>5 DEF MsgUnlocking, Good
  <2>2. mail' \in Seq(Notice) /\ service' \in ServiceRecord
    BY <1>5, HearsTyped DEF MsgUnlocking
  <2> QED BY <1>5, <2>1, <2>2, FailedGood, UnlockGood DEF MsgUnlocking, Becomes
<1>6. CASE Mistaken
  <2>1. object \in ObjectRecord /\ object.open = 1
    BY <1>6 DEF Mistaken, Good
  <2> QED BY <1>6, <2>1, FailedGood DEF Mistaken, Becomes
<1> QED BY <1>1, <1>2, <1>3, <1>4, <1>5, <1>6 DEF Hear

LEMMA DaemonGood == IInv /\ Daemon => IInv'
<1> SUFFICES ASSUME IInv, Daemon PROVE IInv'
  OBVIOUS
<1> USE DEF IInv
<1>0. NoTicket \in ServiceRecord
  BY DEF NoTicket, ServiceRecord
<1>1. CASE TakeLock
  <2>1. Good(object') /\ Head(object.sent) \in Request
    BY <1>1, TakenGood DEF TakeLock
  <2>2. Head(object.sent).left \in Nat
    BY <2>1 DEF Request
  <2>3. CASE Answer(Note("LOCK_FAILED")) /\ UNCHANGED service
    BY <2>1, <2>3, AnswerTyped, NoteTyped
  <2>4. CASE service' = [phase |-> "WAITING", left |-> Head(object.sent).left, over |-> 0] /\ UNCHANGED mail
    BY <2>1, <2>2, <2>4 DEF ServiceRecord
  <2> QED BY <1>1, <2>3, <2>4 DEF TakeLock
<1>2. CASE TakeUnlock
  <2>1. Good(object')
    BY <1>2, TakenGood DEF TakeUnlock
  <2>2. mail' \in Seq(Notice)
    BY <1>2, AnswerTyped, NoteTyped DEF TakeUnlock
  <2> QED BY <1>0, <1>2, <2>1, <2>2 DEF TakeUnlock
<1>3. CASE Grant
  <2>1. Duration + UnlockDuration \in Nat /\ Duration \in Nat
    BY ClientAssumption
  <2>2. [type |-> "LOCKED", lock |-> Duration, over |-> Duration + UnlockDuration] \in Notice
    BY <2>1 DEF Notice
  <2>3. mail' \in Seq(Notice)
    BY <1>3, <2>2, AnswerTyped DEF Grant
  <2> QED BY <1>3, <2>1, <2>3 DEF Grant, ServiceRecord, Good
<1>4. CASE Refuse
  <2>1. mail' \in Seq(Notice)
    BY <1>4, AnswerTyped, NoteTyped DEF Refuse
  <2> QED BY <1>0, <1>4, <2>1 DEF Refuse, Good
<1>5. CASE Expire
  <2>1. mail' \in Seq(Notice)
    BY <1>5, AnswerTyped, NoteTyped DEF Expire
  <2>2. service' \in ServiceRecord
    BY <1>0, <1>5 DEF Expire, ServiceRecord
  <2> QED BY <1>5, <2>1, <2>2 DEF Expire, Good
<1> QED BY <1>1, <1>2, <1>3, <1>4, <1>5 DEF Daemon

\* A TRANSMISSION_REPORT fails the object, whoever's LOCK it is about.
LEMMA TransmissionGood == IInv /\ Transmission => IInv'
<1> SUFFICES ASSUME IInv, Transmission PROVE IInv'
  OBVIOUS
<1> USE DEF IInv
<1>1. CASE Undelivered
  <2> DEFINE o == [object EXCEPT !.sent = Tail(@)]
  <2>1. object.sent \in Seq(Request) /\ object.sent # <<>>
    BY <1>1 DEF Good, ObjectRecord, Undelivered
  <2>2. Tail(object.sent) \in Seq(Request)
    BY <2>1
  <2> HIDE DEF Request
  <2>3. Good(o) /\ (o.listening => o \in ObjectRecord /\ o.open = 1)
    BY <2>2 DEF Good, ObjectRecord
  <2>4. \E p \in IF o.listening THEN Failed(o) ELSE {o} : object' = p
    BY <1>1 DEF Undelivered, Becomes
  <2> HIDE DEF o
  <2>5. Good(object')
    BY <2>3, <2>4, FailedGood
  <2> QED BY <1>1, <2>5 DEF Undelivered
<1>2. CASE OthersUndelivered
  <2>1. object \in ObjectRecord /\ object.open = 1
    BY <1>2 DEF OthersUndelivered, Good
  <2> QED BY <1>2, <2>1, FailedGood DEF OthersUndelivered, Becomes
<1> QED BY <1>1, <1>2 DEF Transmission

LEMMA TickGood == IInv /\ Tick => IInv'
<1> SUFFICES ASSUME IInv, Tick PROVE IInv'
  OBVIOUS
<1> USE DEF IInv
<1>1. Good(object')
  <2> DEFINE sent == Aged(object.sent)
  <2>1. \A r \in Request : [r EXCEPT !.left = Less(@)] \in Request
    BY LessNat DEF Request
  <2>2. object.sent \in Seq(Request)
    BY DEF Good, ObjectRecord
  <2>3. sent \in Seq(Request)
    BY <2>1, <2>2 DEF Aged
  <2>4. object' = [object EXCEPT !.lockLeft = Less(@), !.overLeft = Less(@), !.timer = Less(@),
                                 !.sent = sent]
    BY DEF Tick
  <2> HIDE DEF sent, Request
  <2>5. object.lockLeft \in Nat /\ object.overLeft \in Nat /\ object.timer \in Nat
    BY DEF Good, ObjectRecord
  <2>6. Less(object.lockLeft) \in Nat /\ Less(object.overLeft) \in Nat /\ Less(object.timer) \in Nat
    BY <2>5, LessNat
  <2> DEFINE a == Less(object.lockLeft)
             b == Less(object.overLeft)
             c == Less(object.timer)
             aged == [object EXCEPT !.lockLeft = a, !.overLeft = b, !.timer = c, !.sent = sent]
  <2>7. a \in Nat /\ b \in Nat /\ c \in Nat
    BY <2>6
  <2> HIDE DEF a, b, c
  <2>8. Good(aged)
    BY <2>3, <2>7 DEF Good, ObjectRecord
  <2>9. object' = aged
    BY <2>4 DEF a, b, c
  <2> HIDE DEF aged
  <2> QED BY <2>8, <2>9
<1>2. mail' \in Seq(Notice)
  <2>1. \A n \in Notice : AgedNotice(n) \in Notice
    BY LessNat DEF Notice, AgedNotice
  <2>2. mail' = [i \in DOMAIN mail |-> AgedNotice(mail[i])] /\ mail \in Seq(Notice)
    BY DEF Tick
  <2> HIDE DEF Notice
  <2> QED BY <2>1, <2>2
<1>3. service' \in ServiceRecord
  BY LessNat DEF Tick, ServiceRecord
<1> QED BY <1>1, <1>2, <1>3

LEMMA NextGood == IInv /\ [Next]_vars => IInv'
<1>1. IInv /\ UNCHANGED vars => IInv'
  BY DEF IInv, vars, Good
<1> QED BY <1>1, UserGood, TimeoutGood, HearGood, DaemonGood, TransmissionGood, TickGood DEF Next

\* In every execution, the fields of the object and what is on its way have their types: the
\* duration of a lock, as a timer, is never negative.
THEOREM TypeCorrect == Spec => []TypeOK
<1>1. IInv => TypeOK
  BY DEF IInv, Good, TypeOK
<1> QED BY <1>1, InitGood, NextGood, PTL DEF Spec

\* In every execution, every lock() that returned true is followed by exactly one finally(),
\* whatever the callbacks, the daemon and the network do.
THEOREM EachLockEndsOnce == Spec => []OneFinally
<1>1. IInv => OneFinally
  BY DEF IInv, Good, OneFinally, ObjectRecord
<1> QED BY <1>1, InitGood, NextGood, PTL DEF Spec

\* In every execution, an object with a lock in progress has its timer running in a state
\* that process_timeout() leaves: it never depends on an answer.
THEOREM TimerAlwaysRuns == Spec => []NeverStuck
<1>1. IInv => NeverStuck
  BY DEF IInv, Good, NeverStuck
<1> QED BY <1>1, InitGood, NextGood, PTL DEF Spec
=============================================================================
