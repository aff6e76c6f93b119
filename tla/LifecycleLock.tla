---------------------------- MODULE LifecycleLock ----------------------------
(***************************************************************************)
(* MarketBarLifecycleLock (market_vault/lifecycle.py): a lock directory    *)
(* with a file owner.json in it, taken by mkdir, one system call at a      *)
(* time.  Nothing in the code reclaims a lock: a process that dies, or     *)
(* whose clean-up fails, leaves the directory behind, with or without its  *)
(* owner file, and every acquire fails until the operator removes it.      *)
(* The operator is taken at the word of the class comment, "until an       *)
(* operator investigates it": he removes the directory of a process that   *)
(* no longer uses it.                                                      *)
(***************************************************************************)
CONSTANTS
  Processes,  \* every process that ever uses the data root
  None, Torn  \* no owner file; an owner file that is not written completely

ASSUME ProcessAssumption == None \notin Processes /\ Torn \notin Processes \union {None}

VARIABLES
  maker,  \* the process that created the lock directory, None if there is none
  owner,  \* the token in owner.json: None, Torn or a process
  pc      \* process -> where it is in acquire, the operation, or release

vars == <<maker, owner, pc>>

Places == {"out",                         \* no lock wanted, or the last one left
           "want", "made", "opened", "written",   \* in acquire
           "undo", "undo_rmdir",          \* in acquire's exception handler
           "held",                        \* the operation runs
           "checked", "unowned"}          \* in release

Init == maker = None /\ owner = None /\ pc = [p \in Processes |-> "out"]

Goto(p, place) == pc' = [pc EXCEPT ![p] = place]

-----------------------------------------------------------------------------
\* acquire
\* The directories above it are checked and made first.
Want(p) == pc[p] = "out" /\ Goto(p, "want") /\ UNCHANGED <<maker, owner>>

\* Faulty variant: mkdir(exist_ok=True).
MakeAnyway(p) ==
  /\ pc[p] = "want"
  /\ maker' = p
  /\ Goto(p, "made")
  /\ UNCHANGED owner
\* mkdir(exist_ok=False) is atomic.
Make(p) ==
  /\ pc[p] = "want"
  /\ maker = None
  /\ maker' = p
  /\ Goto(p, "made")
  /\ UNCHANGED owner

\* "market-bar lifecycle lock is already held": nobody waits.
Blocked(p) ==
  /\ pc[p] = "want"
  /\ maker # None
  /\ Goto(p, "out")
  /\ UNCHANGED <<maker, owner>>

\* open("x") creates the file; its content comes later.
OpenOwner(p) ==
  /\ pc[p] = "made"
  /\ owner = None
  /\ owner' = Torn
  /\ Goto(p, "opened")
  /\ UNCHANGED maker

WriteOwner(p) ==
  /\ pc[p] = "opened"
  /\ owner' = p
  /\ Goto(p, "written")
  /\ UNCHANGED maker

Acquired(p) == pc[p] = "written" /\ Goto(p, "held") /\ UNCHANGED <<maker, owner>>

\* Any exception after mkdir, an existing owner file included.
AcquireFails(p) ==
  /\ pc[p] \in {"made", "opened", "written"}
  /\ Goto(p, "undo")
  /\ UNCHANGED <<maker, owner>>

\* unlink(missing_ok=True): whatever token the file holds.
UndoUnlink(p) ==
  /\ pc[p] = "undo"
  /\ owner' = None
  /\ Goto(p, "undo_rmdir")
  /\ UNCHANGED maker

-----------------------------------------------------------------------------
\* release
\* A token that is not ours, or cannot be read: LifecycleLockError, nothing is
\* removed.
CheckOwner(p) ==
  /\ pc[p] = "held"
  /\ Goto(p, IF owner = p THEN "checked" ELSE "out")
  /\ UNCHANGED <<maker, owner>>

ReleaseUnlink(p) ==
  /\ pc[p] = "checked"
  /\ owner' = None
  /\ Goto(p, IF owner = None THEN "out" ELSE "unowned")
  /\ UNCHANGED maker

\* rmdir fails on a directory that is not empty, in release and in the handler.
Rmdir(p) ==
  /\ pc[p] \in {"unowned", "undo_rmdir"}
  /\ maker' = IF owner = None THEN None ELSE maker
  /\ Goto(p, "out")
  /\ UNCHANGED owner

\* The process dies anywhere; in acquire and release an error or an interrupt
\* that no handler cleans up after has the same effect.
Abandon(p) ==
  /\ pc[p] # "out"
  /\ Goto(p, "out")
  /\ UNCHANGED <<maker, owner>>

\* Faulty variant: judged by the process id alone, which a restart may reuse.
InUseByPid == pc[maker] # "out"
\* Whether the maker of the directory still uses it.
InUse == pc[maker] \notin {"out", "want"}

\* Faulty variant: a directory without an owner file is taken for stale.
ClearsUnowned ==
  /\ maker # None /\ (~InUse \/ owner = None)
  /\ maker' = None /\ owner' = None
  /\ UNCHANGED pc
OperatorClears ==
  /\ maker # None /\ ~InUse
  /\ maker' = None /\ owner' = None
  /\ UNCHANGED pc

-----------------------------------------------------------------------------
Step(p) ==
  \/ Want(p) \/ Make(p) \/ Blocked(p)
  \/ OpenOwner(p) \/ WriteOwner(p) \/ Acquired(p)
  \/ AcquireFails(p) \/ UndoUnlink(p)
  \/ CheckOwner(p) \/ ReleaseUnlink(p) \/ Rmdir(p)
  \/ Abandon(p)

Next == OperatorClears \/ \E p \in Processes : Step(p)

Spec == Init /\ [][Next]_vars

\* A process goes on with what it began, or dies; the operator gets round to it.
FairSpec ==
  /\ Spec
  /\ WF_vars(OperatorClears)
  /\ \A p \in Processes : WF_vars(pc[p] # "out" /\ Step(p))

-----------------------------------------------------------------------------
TypeOK ==
  /\ maker \in Processes \union {None}
  /\ owner \in Processes \union {None, Torn}
  /\ pc \in [Processes -> Places]

\* Two operations on one data root never run at the same time, through crashes
\* at every system call of acquire and release.
MutualExclusion ==
  \A p, q \in Processes : pc[p] = "held" /\ pc[q] = "held" => p = q

\* The running operation finds its own token when it releases: neither another
\* process's clean-up nor the operator ever took its lock away.
HolderOwns == \A p \in Processes : pc[p] = "held" => maker = p /\ owner = p

\* The next operation is not shut out for ever.
EventuallyFree == maker # None ~> maker = None

\* Two values that are no process.
Free  == None
Stale == Torn
Lock == INSTANCE Reservation WITH
  holder <- IF maker = None THEN Free ELSE IF InUse THEN maker ELSE Stale,
  inside <- {p \in Processes : pc[p] = "held"}

\* Seen from an operation the directory and its owner file are one exclusive
\* reservation, which a crash leaves stale ("Locks are deliberately not reclaimed
\* automatically").
ImplementsReservation == Lock!Spec
=============================================================================
