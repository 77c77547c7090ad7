------------------------------ MODULE ResetLock ------------------------------
(***************************************************************************)
(* What a password reset promises, without mails, columns or requests: a   *)
(* lock that is turned only from the inside, which takes no key, or by     *)
(* somebody who showed the key installed last, and showed it while that    *)
(* key was young.  PasswordReset implements this.                          *)
(***************************************************************************)
EXTENDS Naturals, Sequences

CONSTANTS
  Owners,      \* who has a lock
  Attempts,    \* names for attempts at a lock
  Settings,    \* what a lock can be set to
  YoungFor,    \* how long a key works
  Nothing

VARIABLES
  cut,       \* the times at which keys were cut, in order
  lock,      \* owner -> the key installed, or Nothing
  trying,    \* attempt -> [owner, key] under way, or Nothing; without a key
             \* it comes from the inside
  setting,   \* owner -> what the lock is set to
  now

resetlock == <<cut, lock, trying, setting, now>>

ResetLockInit ==
  /\ cut = <<>>
  /\ lock = [o \in Owners |-> Nothing]
  /\ trying = [a \in Attempts |-> Nothing]
  /\ setting \in [Owners -> Settings]
  /\ now = 0

Cut ==
  /\ cut' = Append(cut, now)
  /\ UNCHANGED <<lock, trying, setting, now>>

\* A key fits one lock, and takes the place of the one before.
Install(o, k) ==
  /\ k \in DOMAIN cut
  /\ \A p \in Owners : lock[p] # k
  /\ lock' = [lock EXCEPT ![o] = k]
  /\ UNCHANGED <<cut, trying, setting, now>>

Show(a, o) ==
  /\ trying[a] = Nothing
  /\ lock[o] # Nothing
  /\ now <= cut[lock[o]] + YoungFor
  /\ trying' = [trying EXCEPT ![a] = [owner |-> o, key |-> lock[o]]]
  /\ UNCHANGED <<cut, lock, setting, now>>

FromInside(a, o) ==
  /\ trying[a] = Nothing
  /\ trying' = [trying EXCEPT ![a] = [owner |-> o, key |-> Nothing]]
  /\ UNCHANGED <<cut, lock, setting, now>>

\* The key stays in the lock, and may have been replaced since it was shown.
Turn(a, s) ==
  /\ trying[a] # Nothing
  /\ setting' = [setting EXCEPT ![trying[a].owner] = s]
  /\ trying' = [trying EXCEPT ![a] = Nothing]
  /\ UNCHANGED <<cut, lock, now>>

GiveUp(a) ==
  /\ trying[a] # Nothing
  /\ trying' = [trying EXCEPT ![a] = Nothing]
  /\ UNCHANGED <<cut, lock, setting, now>>

Pass ==
  /\ now' = now + 1
  /\ UNCHANGED <<cut, lock, trying, setting>>

Finish(a) == GiveUp(a) \/ \E s \in Settings : Turn(a, s)

ResetLockNext ==
  \/ Cut
  \/ \E o \in Owners : \E k \in DOMAIN cut : Install(o, k)
  \/ \E a \in Attempts, o \in Owners : Show(a, o) \/ FromInside(a, o)
  \/ \E a \in Attempts : Finish(a)
  \/ Pass

ResetLockSpec == ResetLockInit /\ [][ResetLockNext]_resetlock

\* No attempt stays open for ever.
FairResetLockSpec ==
  ResetLockSpec /\ \A a \in Attempts : WF_resetlock(Finish(a))
=============================================================================
