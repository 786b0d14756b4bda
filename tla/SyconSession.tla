----------------------------- MODULE SyconSession -----------------------------
(***************************************************************************)
(* How the controller's threads share the switch driver's session          *)
(* (libsycon/include/sycon/config.h).  A spin lock (atom) guards the one   *)
(* session, and a transaction is opened on it for as long as the lock is   *)
(* held.  Notifiers are the driver's threads that run digest and           *)
(* idle-timeout callbacks; they count themselves in                        *)
(* pending_dataplane_notifications before they take the lock.  Workers are *)
(* the packet thread (pcie_rx) and the data structures' clean-up threads;  *)
(* they wait for that count to be 0 before they take it.                   *)
(*                                                                         *)
(* atomic64_inc and atomic64_dec are modelled by what their assembly does: *)
(* the memory operand is the pointer argument v, not *v, so they change a  *)
(* copy of the address on the caller's stack and the counter keeps its     *)
(* value.                                                                  *)
(***************************************************************************)
EXTENDS Naturals, FiniteSets

CONSTANTS
    Notifier, Worker,   \* threads
    NoThread

ASSUME ThreadAssumption ==
    /\ Notifier \cap Worker = {}
    /\ NoThread \notin Notifier \cup Worker

VARIABLES
    pc,        \* pc[t] : where thread t is
    atom,      \* the spin lock: 0 or 1
    pending,   \* pending_dataplane_notifications
    session    \* the thread whose transaction is open on the session

sessionVars == <<pc, atom, pending, session>>

Thread == Notifier \cup Worker

Goto(t, from, to) == pc[t] = from /\ pc' = [pc EXCEPT ![t] = to]

SessionInit ==
    /\ pc = [t \in Thread |-> "idle"]
    /\ atom = 0
    /\ pending = 0
    /\ session = NoThread

atomic64_inc == UNCHANGED pending

atomic64_dec == UNCHANGED pending

\* begin_dataplane_notification_transaction, up to lock()
Notify(t) ==
    /\ t \in Notifier
    /\ Goto(t, "idle", "lock")
    /\ atomic64_inc
    /\ UNCHANGED <<atom, session>>

\* begin_transaction is called
Request(t) ==
    /\ t \in Worker
    /\ Goto(t, "idle", "wait")
    /\ UNCHANGED <<atom, pending, session>>

\* wait_for_dataplane_notifications: the read that ends the loop
WaitDone(t) ==
    /\ Goto(t, "wait", "lock")
    /\ pending = 0
    /\ UNCHANGED <<atom, pending, session>>

\* Fault: the lock word is set without being compared.
LockUntested(t) ==
    /\ Goto(t, "lock", "begin")
    /\ atom' = 1
    /\ UNCHANGED <<pending, session>>

\* lock(): the compare-and-set that succeeds
Lock(t) ==
    /\ Goto(t, "lock", "begin")
    /\ atom = 0
    /\ atom' = 1
    /\ UNCHANGED <<pending, session>>

\* session->beginTransaction
Begin(t) ==
    /\ Goto(t, "begin", "inside")
    /\ session' = t
    /\ UNCHANGED <<atom, pending>>

\* Fault: the lock is released while the transaction is still open.
EndUnlocksFirst(t) ==
    /\ Goto(t, "inside", "unlock")
    /\ atom' = 0
    /\ UNCHANGED <<pending, session>>

\* session->commitTransaction or abortTransaction
End(t) ==
    /\ Goto(t, "inside", IF t \in Notifier THEN "dec" ELSE "unlock")
    /\ session' = NoThread
    /\ UNCHANGED <<atom, pending>>

\* commit_ and abort_dataplane_notification_transaction go on to the counter
Dec(t) ==
    /\ Goto(t, "dec", "unlock")
    /\ atomic64_dec
    /\ UNCHANGED <<atom, session>>

\* Fault: a path that forgets to unlock.
UnlockForgotten(t) ==
    /\ Goto(t, "unlock", "idle")
    /\ UNCHANGED <<atom, pending, session>>

\* unlock(): a plain store
Unlock(t) ==
    /\ Goto(t, "unlock", "idle")
    /\ atom' = 0
    /\ UNCHANGED <<pending, session>>

Proceed(t) == WaitDone(t) \/ Lock(t) \/ Begin(t) \/ End(t) \/ Dec(t) \/ Unlock(t)

SessionNext == \E t \in Thread : Notify(t) \/ Request(t) \/ Proceed(t)

SessionSpec == SessionInit /\ [][SessionNext]_sessionVars

\* A thread that has called is scheduled again and again, and the work it does
\* under the lock (nf_process, a callback) ends.
SessionFairness == \A t \in Thread : WF_sessionVars(Proceed(t))

------------------------------------------------------------------------------
(* Properties                                                               *)

SessionTypeOK ==
    /\ pc \in [Thread -> {"idle", "wait", "lock", "begin", "inside", "dec", "unlock"}]
    /\ atom \in {0, 1}
    /\ pending \in Nat
    /\ session \in Thread \cup {NoThread}

\* Between lock() and unlock().
Holds(t) == pc[t] \in {"begin", "inside", "dec", "unlock"}

\* However the threads interleave, one at a time is between lock() and
\* unlock(): the controller's data structures are shared and have no other
\* protection.
MutualExclusion == \A t, u \in Thread : Holds(t) /\ Holds(u) => t = u

\* The driver refuses a second transaction on a session, and a commit with no
\* transaction (the controller exits on either): a thread begins only when
\* none is open, and ends its own.
SessionSound ==
    \A t \in Thread :
        /\ pc[t] = "begin" => session = NoThread
        /\ pc[t] = "inside" => session = t

\* No thread keeps the lock: whenever it is taken it is later released.
LockReleased == atom = 1 ~> atom = 0

\* Notifications go first: a worker gets past its wait only when no
\* notification has announced itself and not yet counted itself out.
NotificationsFirst ==
    [][\A w \in Worker : pc[w] = "wait" /\ pc'[w] = "lock" =>
          \A n \in Notifier : pc[n] \in {"idle", "unlock"}]_sessionVars
==============================================================================
