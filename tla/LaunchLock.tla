----------------------------- MODULE LaunchLock -----------------------------
(***************************************************************************)
(* The lock of a browser profile, acquireProfileLaunchLock of              *)
(* packages/client/launcher.go: a directory made by the launcher, with the *)
(* launcher's token in a file `owner`.  Everything is done by path, one    *)
(* system call after the other, by processes that may be killed between    *)
(* any two of them.                                                        *)
(*                                                                         *)
(* A token is the process that made it.  A process takes the lock at most  *)
(* once.  Time is abstracted: a waiter may reach its deadline, and a       *)
(* directory the age of 30 s, at any moment, whoever holds it: a launch    *)
(* may look for a Chrome, kill one for 5 s and wait for the next for 30 s. *)
(***************************************************************************)
EXTENDS Integers, FiniteSets

CONSTANTS Launchers,
          None,         \* no directory, no owner
          MaxCrashes    \* bound on the processes that are killed

Locks == [owner : Launchers \cup {None}, maker : Launchers, old : BOOLEAN]

ASSUME NoneAssumption == None \notin Launchers \cup Locks
ASSUME CrashAssumption == MaxCrashes \in Nat

VARIABLES
  lock,      \* tether-launch.lock: its owner file, its maker, its age
  pc,        \* where each launcher is; "dead" when killed, "gone" when it ended
  sawOld,    \* the directory that a waiter has looked at is old
  sawOwner,  \* the token that it has read
  lapsed     \* a directory was 30 s old, or a token outlived its process, when a
             \* waiter had it or could get it (kept for the properties only)

lockVars == <<lock, pc, sawOld, sawOwner, lapsed>>

-----------------------------------------------------------------------------

Dir(owner, maker, old) == [owner |-> owner, maker |-> maker, old |-> old]
Waiting == {"try", "read", "judge", "unlink", "rmdir"}
Holding == {"write", "held", "relread", "relfile", "reldir"}
Ended   == {"dead", "gone"}

LockInit ==
  /\ lock = None
  /\ pc = [p \in Launchers |-> "out"]
  /\ sawOld = [p \in Launchers |-> FALSE]
  /\ sawOwner = [p \in Launchers |-> None]
  /\ lapsed = FALSE

Goto(p, next) == pc' = [pc EXCEPT ![p] = next]

Enter(p) ==
  /\ pc[p] = "out"
  /\ Goto(p, "try")
  /\ UNCHANGED <<lock, sawOld, sawOwner, lapsed>>

Mkdir(p) ==
  /\ pc[p] = "try" /\ lock = None
  /\ lock' = Dir(None, p, FALSE)
  /\ Goto(p, "write")
  /\ UNCHANGED <<sawOld, sawOwner, lapsed>>

\* The file goes into whatever directory has the path by now, which is as new as
\* its latest entry; without one the error is ignored.
WriteOwner(p) ==
  /\ pc[p] = "write"
  /\ lock' = IF lock = None THEN None
             ELSE Dir(p, lock.maker, lock.old /\ lock.owner # None)
  /\ Goto(p, "held")
  /\ UNCHANGED <<sawOld, sawOwner, lapsed>>

\* The directory exists: its age is taken first.
Stat(p) ==
  /\ pc[p] = "try" /\ lock # None
  /\ sawOld' = [sawOld EXCEPT ![p] = lock.old]
  /\ Goto(p, "read")
  /\ UNCHANGED <<lock, sawOwner, lapsed>>

\* The token of whatever directory has the path by now, if it has one.
ReadOwner(p) ==
  /\ pc[p] = "read"
  /\ sawOwner' = [sawOwner EXCEPT ![p] = IF lock = None THEN None ELSE lock.owner]
  /\ Goto(p, "judge")
  /\ UNCHANGED <<lock, sawOld, lapsed>>

\* Mutant: a directory without a token is taken for a leftover.
StaleUnowned(p) == \/ sawOwner[p] = None \/ pc[sawOwner[p]] \in Ended
                   \/ sawOld[p]

\* The owner is dead, or the directory is old.
Stale(p) == \/ sawOwner[p] # None /\ pc[sawOwner[p]] \in Ended
            \/ sawOld[p]

Judge(p) ==
  /\ pc[p] = "judge"
  /\ IF Stale(p) THEN Goto(p, "unlink")
                 ELSE Goto(p, "try") \/ Goto(p, "failed")
  /\ sawOld' = [sawOld EXCEPT ![p] = FALSE]
  /\ sawOwner' = [sawOwner EXCEPT ![p] = None]
  /\ UNCHANGED <<lock, lapsed>>

\* The owner file goes, and the directory is as new as this change of it.
Unowned == IF lock = None \/ lock.owner = None THEN lock
           ELSE Dir(None, lock.maker, FALSE)

\* RemoveAll empties whatever directory has the path by now, and removes it
\* when it is still empty.
Unlink(p) ==
  /\ pc[p] = "unlink"
  /\ lock' = Unowned
  /\ Goto(p, "rmdir")
  /\ UNCHANGED <<sawOld, sawOwner, lapsed>>

\* A directory is removed only when it is empty.
Emptied == IF lock # None /\ lock.owner = None THEN None ELSE lock

Rmdir(p) ==
  /\ pc[p] = "rmdir"
  /\ lock' = Emptied
  /\ Goto(p, "try")
  /\ UNCHANGED <<sawOld, sawOwner, lapsed>>

-----------------------------------------------------------------------------
(* release                                                                 *)

Unlock(p) ==
  /\ pc[p] = "held"
  /\ Goto(p, "relread")
  /\ UNCHANGED <<lock, sawOld, sawOwner, lapsed>>

Compare(p) ==
  /\ pc[p] = "relread"
  /\ Goto(p, IF lock # None /\ lock.owner = p THEN "relfile" ELSE "done")
  /\ UNCHANGED <<lock, sawOld, sawOwner, lapsed>>

RemoveOwner(p) ==
  /\ pc[p] = "relfile"
  /\ lock' = Unowned
  /\ Goto(p, "reldir")
  /\ UNCHANGED <<sawOld, sawOwner, lapsed>>

RemoveDir(p) ==
  /\ pc[p] = "reldir"
  /\ lock' = Emptied
  /\ Goto(p, "done")
  /\ UNCHANGED <<sawOld, sawOwner, lapsed>>

-----------------------------------------------------------------------------

\* The tokens a waiter has, or can get.
Tokens == {d.owner : d \in {lock} \ {None}}
            \cup {sawOwner[q] : q \in {r \in Launchers : pc[r] = "judge"}}

\* The process of p is no more.
Ends(p, how) ==
  /\ pc[p] \notin Ended
  /\ Goto(p, how)
  /\ lapsed' = (lapsed \/ p \in Tokens)
  /\ UNCHANGED <<lock, sawOld, sawOwner>>

crashed == {p \in Launchers : pc[p] = "dead"}

Crash(p) == Cardinality(crashed) < MaxCrashes /\ Ends(p, "dead")

\* A process that is not in the middle of a launch ends by itself.
Exit(p) == pc[p] \in {"out", "failed", "done"} /\ Ends(p, "gone")

\* The directory gets 30 s old ...
Age ==
  /\ lock # None /\ ~lock.old
  /\ lock' = Dir(lock.owner, lock.maker, TRUE)
  /\ lapsed' = TRUE
  /\ UNCHANGED <<pc, sawOld, sawOwner>>

\* ... or the one that a waiter has looked at, which may be gone.
AgeSeen(p) ==
  /\ pc[p] \in {"read", "judge"} /\ ~sawOld[p]
  /\ sawOld' = [sawOld EXCEPT ![p] = TRUE]
  /\ lapsed' = TRUE
  /\ UNCHANGED <<lock, pc, sawOwner>>

Acquire(p) == \/ Mkdir(p) \/ WriteOwner(p) \/ Stat(p) \/ ReadOwner(p) \/ Judge(p)
              \/ Unlink(p) \/ Rmdir(p)
Release(p) == Compare(p) \/ RemoveOwner(p) \/ RemoveDir(p)

LockNext ==
  \/ \E p \in Launchers : Enter(p) \/ Acquire(p) \/ Unlock(p) \/ Release(p)
                            \/ Crash(p) \/ Exit(p) \/ AgeSeen(p)
  \/ Age

LockSpec == LockInit /\ [][LockNext]_lockVars

-----------------------------------------------------------------------------
(* Properties.                                                             *)

LockTypeOK ==
  /\ lock \in Locks \cup {None}
  /\ pc \in [Launchers -> {"out", "failed", "done"} \cup Waiting \cup Holding \cup Ended]
  /\ sawOld \in [Launchers -> BOOLEAN]
  /\ sawOwner \in [Launchers -> Launchers \cup {None}]
  /\ lapsed \in BOOLEAN

\* The lock "serializes concurrent launchers for one profile"
\* (launcher.go:348): two launchers never hold it together.
Exclusive == \A p, q \in Launchers : pc[p] = "held" /\ pc[q] = "held" => p = q

\* "An owner token written inside the directory prevents delayed releases or
\* breakers from deleting a replacement lock" (launcher.go:349-350): the
\* directory of a launcher that took the lock is there until it releases it.
HolderKeepsLock ==
  \A p \in Launchers : pc[p] = "held" => lock # None /\ lock.owner = p

\* What the code does keep of it: until a lock has lapsed for the first time - its
\* directory is 30 s old, although its holder may be at work, or its holder's process
\* has ended - no waiter takes it from under the launcher that took it: not while
\* that one holds it, and not between its mkdir and its token.  After that nothing
\* is kept: a slow launch loses its lock with everybody alive (launcher.go:388).
KeptFromTheLiving == ~lapsed => HolderKeepsLock
=============================================================================
