---------------------------- MODULE CluckClient ----------------------------
(***************************************************************************)
(* The cluck object of a process (cluck/cluck.cpp): its states, its timer, *)
(* the callbacks of its user, and everything it may hear, in any order and *)
(* at any time.  CluckBakery has the daemons in full and this object in    *)
(* four states; here it is the other way around, and cluckd is reduced to  *)
(* what one client sees of it.                                             *)
(*                                                                         *)
(* A callback of the user may call lock() or unlock() and a message may    *)
(* not get out, so the functions of the object are sets of outcomes.  The  *)
(* other objects of the process only show in the TRANSMISSION_REPORT of    *)
(* their messages.  Dates are the time left until then, 0 once past.       *)
(***************************************************************************)
EXTENDS Integers, Sequences

CONSTANTS
  Obtention,       \* how long the object waits for the lock
  Duration,        \* how long a lock lasts once obtained
  UnlockDuration,  \* how much longer a late client has to acknowledge an UNLOCKING
  UnlockWait,      \* how long the object waits for an UNLOCKED (5 s in the code)
  MaxSent,         \* bound: the messages on their way to cluckd
  MaxMail          \* bound: the messages on their way from cluckd

ASSUME ClientAssumption ==
  /\ Obtention \in Nat \ {0} /\ Duration \in Nat \ {0}
  /\ UnlockDuration \in Nat \ {0} /\ UnlockWait \in Nat \ {0} /\ MaxSent \in Nat /\ MaxMail \in Nat

VARIABLES
  object,    \* the cluck object
  mail,      \* the messages of cluckd on their way to the object
  service    \* the ticket of the object in cluckd

vars == <<object, mail, service>>

Request == [type : {"LOCK", "UNLOCK"}, left : Nat]   \* left: until the LOCK times out

ObjectRecord ==
  [simple    : BOOLEAN,       \* f_mode, CLUCK_MODE_SIMPLE or CLUCK_MODE_EXTENDED
   state     : {"IDLE", "LOCKING", "LOCKED", "UNLOCKING", "FAILED"},   \* f_state
   lockLeft  : Nat,           \* f_lock_timeout_date
   overLeft  : Nat,           \* f_unlocked_timeout_date, never reset
   timer     : Nat,           \* the date of the timer
   enabled   : BOOLEAN,       \* whether the timer is enabled
   listening : BOOLEAN,       \* the matches of the object are in the dispatcher
   sent      : Seq(Request),  \* the messages of the object on their way to cluckd
   open      : {0, 1},        \* the locks begun, lock() being true, less the finally() calls
   turn      : 0..2]          \* counts the finally() calls

Notice ==
  [type : {"LOCKED", "LOCK_FAILED", "UNLOCKING", "UNLOCKED"}, lock : Nat, over : Nat]
Note(type) == [type |-> type, lock |-> 0, over |-> 0]

ServiceRecord ==
  [phase : {"NONE", "WAITING", "HELD", "LATE"},   \* LATE: an UNLOCKING was sent
   left  : Nat,                                   \* until the ticket times out
   over  : Nat]                                   \* until a lock is over for good
NoTicket == [phase |-> "NONE", left |-> 0, over |-> 0]

TypeOK ==
  /\ object \in ObjectRecord
  /\ mail \in Seq(Notice)
  /\ service \in ServiceRecord

NewObject(simple) ==
  [simple |-> simple, state |-> "IDLE", lockLeft |-> 0, overLeft |-> 0, timer |-> 0,
   enabled |-> FALSE, listening |-> FALSE, sent |-> <<>>, open |-> 0, turn |-> 0]

Init ==
  /\ \E simple \in BOOLEAN : object = NewObject(simple)
  /\ mail = <<>>
  /\ service = NoTicket

-----------------------------------------------------------------------------
(* The functions of the object: the states they may leave it in.           *)

Arm(o, left) == [o EXCEPT !.timer = left, !.enabled = TRUE]
Disarm(o) == [o EXCEPT !.enabled = FALSE]

\* cluck::is_busy(), cluck::is_locked()
IsBusy(o) == o.state # "IDLE"
IsLocked(o) == o.state = "LOCKED" /\ o.lockLeft > 0

Room(o) == Len(o.sent) < MaxSent
LockSent(o) ==
  [Arm(o, Obtention) EXCEPT
     !.state = "LOCKING", !.listening = TRUE, !.open = @ + 1,
     !.sent = Append(@, [type |-> "LOCK", left |-> Obtention])]

\* cluck::lock()
Lock(o) ==
  IF IsBusy(o) THEN {o}
  ELSE {[o EXCEPT !.state = "FAILED"]} \cup {p \in {LockSent(o)} : Room(o)}

\* cluck::lock_failed(); in its callbacks the object is busy, lock() and unlock() do nothing
LockFailed(o) ==
  IF o.state = "FAILED" THEN o ELSE [Disarm(o) EXCEPT !.state = "FAILED"]

\* Fault: the matches stay in the dispatcher.
FinallyStillListening(o) ==
  LET p == [o EXCEPT !.state = "IDLE", !.open = @ - 1, !.turn = (@ + 1) % 3] IN {p} \cup Lock(p)

\* cluck::finally(); its callbacks may call lock()
Finally(o) ==
  LET p == [o EXCEPT !.state = "IDLE", !.listening = FALSE, !.open = @ - 1, !.turn = (@ + 1) % 3]
  IN  {p} \cup Lock(p)

\* The end of a lock that failed.
Failed(o) == Finally(LockFailed(o))

UnlockSent(o) ==
  [Arm(o, UnlockWait) EXCEPT !.state = "UNLOCKING", !.lockLeft = 0,
                             !.sent = Append(@, [type |-> "UNLOCK", left |-> 0])]

\* Fault: an UNLOCK that nobody acknowledges is waited for forever.
UnlockWithoutTimer(o) ==
  IF o.state \notin {"LOCKED", "LOCKING"} THEN {o}
  ELSE Failed([o EXCEPT !.lockLeft = 0, !.state = "FAILED"])
       \cup {p \in {[UnlockSent(o) EXCEPT !.enabled = FALSE]} : Room(o)}

\* cluck::unlock()
Unlock(o) ==
  IF o.state \notin {"LOCKED", "LOCKING"} THEN {o}
  ELSE Failed([o EXCEPT !.lockLeft = 0, !.state = "FAILED"])
       \cup {p \in {UnlockSent(o)} : Room(o)}

\* cluck::lock_obtained(); its callbacks may call unlock(), the simple mode does it after them
LockObtained(o) ==
  LET left == {o} \cup Unlock(o)
  IN  IF o.simple THEN UNION {Unlock(p) : p \in left} ELSE left

-----------------------------------------------------------------------------
(* What the user, the timer and the messages do to the object.             *)

Becomes(outcomes) == \E o \in outcomes : object' = o

UserLocks ==
  /\ Becomes(Lock(object))
  /\ UNCHANGED <<mail, service>>

UserUnlocks ==
  /\ Becomes(Unlock(object))
  /\ UNCHANGED <<mail, service>>

\* cluck::process_timeout()
Timeout ==
  /\ object.enabled /\ object.timer = 0
  /\ LET o == Disarm(object)
     IN  Becomes(CASE o.state \in {"LOCKING", "UNLOCKING"} -> Failed(o)
                   [] o.state = "LOCKED" -> Unlock(o)
                   [] OTHER -> {o})
  /\ UNCHANGED <<mail, service>>

\* The dispatcher finds the object by the command and the tag.
Hears(type) ==
  /\ mail # <<>> /\ Head(mail).type = type
  /\ mail' = Tail(mail)
  /\ UNCHANGED service

Deaf ==
  /\ ~object.listening
  /\ \E type \in {"LOCKED", "LOCK_FAILED", "UNLOCKED", "UNLOCKING"} : Hears(type)
  /\ UNCHANGED object

\* cluck::msg_locked(), in whatever state the object is
MsgLocked ==
  /\ object.listening /\ Hears("LOCKED")
  /\ LET m == Head(mail)
     IN  Becomes(LockObtained([Arm(object, m.lock) EXCEPT
                   !.state = "LOCKED", !.lockLeft = m.lock, !.overLeft = m.over]))

\* cluck::msg_lock_failed()
MsgLockFailed ==
  /\ object.listening /\ Hears("LOCK_FAILED")
  /\ Becomes(Failed(object))

\* cluck::msg_unlocked(): a late one is a failure, and so is that of a lock never obtained
MsgUnlocked ==
  /\ object.listening /\ Hears("UNLOCKED")
  /\ Becomes(IF object.overLeft = 0 THEN Failed(Disarm(object)) ELSE Finally(Disarm(object)))

\* cluck::msg_unlocking()
MsgUnlocking ==
  /\ object.listening /\ Hears("UNLOCKING")
  /\ Becomes(IF object.overLeft = 0 THEN Failed(object) ELSE Unlock(object))

\* cluck::is_cluck_msg() fails: the tag was given to another object by a former process of the
\* same name.  All handlers make the lock fail.
Mistaken ==
  /\ object.listening
  /\ Becomes(Failed(object))
  /\ UNCHANGED <<mail, service>>

-----------------------------------------------------------------------------
(* What becomes of the messages of the object (cluckd.cpp, ticket.cpp).    *)

Taken(type) ==
  /\ object.sent # <<>> /\ Head(object.sent).type = type
  /\ object' = [object EXCEPT !.sent = Tail(@)]

Answer(n) == Len(mail) < MaxMail /\ mail' = Append(mail, n)

\* cluckd::msg_lock(): one ticket at a time; there are other reasons to refuse a LOCK
TakeLock ==
  /\ Taken("LOCK")
  /\ LET left == Head(object.sent).left
     IN  \/ /\ Answer(Note("LOCK_FAILED"))
            /\ UNCHANGED service
         \/ /\ service.phase = "NONE" /\ left > 0
            /\ service' = [phase |-> "WAITING", left |-> left, over |-> 0]
            /\ UNCHANGED mail

\* cluckd::msg_unlock(): a ticket that is still entering stays, one that is late goes silently
TakeUnlock ==
  /\ Taken("UNLOCK")
  /\ \/ /\ service.phase \in {"NONE", "WAITING"} /\ UNCHANGED <<service, mail>>
     \/ /\ service.phase \in {"WAITING", "HELD"}
        /\ service' = NoTicket /\ Answer(Note("UNLOCKED"))
     \/ /\ service.phase = "LATE"
        /\ service' = NoTicket /\ UNCHANGED mail

\* ticket::lock_activated()
Grant ==
  /\ service.phase = "WAITING"
  /\ service' = [phase |-> "HELD", left |-> Duration, over |-> Duration + UnlockDuration]
  /\ Answer([type |-> "LOCKED", lock |-> Duration, over |-> Duration + UnlockDuration])
  /\ UNCHANGED object

\* ticket::lock_failed(): a silent client, an ADD_TICKET refused, or too late
Refuse ==
  /\ service.phase = "WAITING"
  /\ service' = NoTicket
  /\ Answer(Note("LOCK_FAILED"))
  /\ UNCHANGED object

Expire ==
  /\ \/ /\ service.phase = "HELD" /\ service.left = 0 /\ service.over > 0
        /\ service' = [service EXCEPT !.phase = "LATE"]
        /\ Answer(Note("UNLOCKING"))
     \/ /\ service.phase \in {"HELD", "LATE"} /\ service.over = 0
        /\ service' = NoTicket
        /\ Answer(Note("UNLOCKED"))
  /\ UNCHANGED object

\* The communicatord cannot pass a LOCK on; cluck::msg_transmission_report() fails the object.
Undelivered ==
  /\ object.sent # <<>> /\ Head(object.sent).type = "LOCK"
  /\ LET o == [object EXCEPT !.sent = Tail(@)]
     IN  Becomes(IF o.listening THEN Failed(o) ELSE {o})
  /\ UNCHANGED <<mail, service>>

\* The LOCK of another object of the process: the report does not say which one it is about.
OthersUndelivered ==
  /\ object.listening
  /\ Becomes(Failed(object))
  /\ UNCHANGED <<mail, service>>

Less(n) == IF n = 0 THEN 0 ELSE n - 1
Aged(requests) == [i \in DOMAIN requests |-> [requests[i] EXCEPT !.left = Less(@)]]
AgedNotice(n) == [n EXCEPT !.lock = Less(@), !.over = Less(@)]

Tick ==
  /\ object' = [object EXCEPT
       !.lockLeft = Less(@), !.overLeft = Less(@), !.timer = Less(@), !.sent = Aged(@)]
  /\ mail' = [i \in DOMAIN mail |-> AgedNotice(mail[i])]
  /\ service' = [service EXCEPT !.left = Less(@), !.over = Less(@)]

-----------------------------------------------------------------------------
User == UserLocks \/ UserUnlocks
Hear == Deaf \/ MsgLocked \/ MsgLockFailed \/ MsgUnlocked \/ MsgUnlocking \/ Mistaken
Daemon == TakeLock \/ TakeUnlock \/ Grant \/ Refuse \/ Expire
Transmission == Undelivered \/ OthersUndelivered

Next == User \/ Timeout \/ Hear \/ Daemon \/ Transmission \/ Tick

Spec == Init /\ [][Next]_vars

\* Time passes and the event loop of the process calls process_timeout() on time.  Nothing
\* is asked of cluckd, of the network or of the user.
Fairness == WF_vars(Tick) /\ WF_vars(Timeout)

FairSpec == Spec /\ Fairness

-----------------------------------------------------------------------------
(* Properties.                                                             *)

\* finally() is called exactly once for each lock() that returned true, whatever the callbacks
\* do, and from lock() to finally() the object listens to cluckd ("This function is called once
\* the lock process completes").
OneFinally == object.open = IF object.listening THEN 1 ELSE 0

\* A lock in progress never depends on an answer: whichever way the object got there, the
\* timer runs and process_timeout() does something about the state.
NeverStuck ==
  object.listening => object.enabled /\ object.state \in {"LOCKING", "LOCKED", "UNLOCKING"}

\* After its UNLOCK an object never believes in a lock that is gone ("This function releases
\* this inter-process lock at the time it gets called").
GivenUpMeansGone == IsLocked(object) => service.phase = "HELD"

\* The object is only busy with a lock ("the object is and remains busy between the lock()
\* call and the receival of the UNLOCKED message").
BusyMeansLocking == IsBusy(object) => object.open = 1

\* Every lock that was begun ends with a call to finally().
EveryLockEnds == \A t \in 0..2 : object.open = 1 /\ object.turn = t ~> object.turn # t
=============================================================================
