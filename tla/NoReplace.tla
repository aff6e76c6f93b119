------------------------------ MODULE NoReplace ------------------------------
(***************************************************************************)
(* Concurrent writers publish one target without ever replacing it.        *)
(*                                                                         *)
(* They all use the same scheme, `kind`:                                   *)
(*   "file"    storage/atomic_file.py: a temporary sibling, linked to the  *)
(*             target and then unlinked;                                   *)
(*   "owned"   observation/materialization.py (multi_source/ does the same)*)
(*             : a staging directory with a name of its own and a recorded *)
(*             identity, renamed to the target;                            *)
(*   "sealed"  cross_day_dataset/materialization.py: that, with interrupts *)
(*             handled;                                                    *)
(*   "fixed"   dataset/materialization.py (its catalog does the same): a   *)
(*             staging directory under a fixed name, without an identity;  *)
(*   "plain"   canonical/materialization.py: one with a name of its own,   *)
(*             without an identity; a refused rename is an error.          *)
(*                                                                         *)
(* An object is named after the writer that created it; a path shows one.  *)
(* A writer stops wherever its process may stop, leaving what it had made. *)
(* Other programs may replace a temporary object that has an identity,     *)
(* though not between the check of it and the use that follows at once.    *)
(***************************************************************************)
EXTENDS FiniteSets

CONSTANTS Writers, None, Foreign, Target, Staging

Kinds  == {"file", "owned", "sealed", "fixed", "plain"}
Paths  == Writers \union {Target, Staging}
Objects == Writers \union {Foreign}
Parts  == {"members", "_SUCCESS"}
Places == {"start", "absent", "clear", "made", "members", "whole", "bound", "recorded",
           "inquiry", "lost", "settled", "raised", "cleanup", "done"}

ASSUME NameAssumption ==
  /\ None \notin Paths \union Objects
  /\ Foreign \notin Writers /\ {Target, Staging} \intersect Writers = {} /\ Target # Staging

VARIABLES
  kind,
  at,      \* path -> the object it shows, or None
  has,     \* object -> the parts of it that are written
  pc,
  my,      \* writer -> published: what it believes; failed: an exception is raised
  told,    \* writer -> what its caller learned (Publication)
  swept    \* the writers that reported no trouble with their clean-up

vars == <<kind, at, has, pc, my, told, swept>>

Build      == kind # "file"
Owner      == kind \in {"owned", "sealed"}
Identified == Owner \/ ~Build

\* The shape of the state; a temporary path is a writer's own or the shared one,
\* as the scheme has it, and the target never shows what another program made.
TypeOK ==
  /\ kind \in Kinds
  /\ at \in [Paths -> Objects \union {None}]
  /\ at[Target] # Foreign /\ at[Staging] \in (IF kind = "fixed" THEN Writers ELSE {}) \union {None}
  /\ \A w \in Writers : at[w] \in {None} \union (IF kind = "fixed" THEN {} ELSE {w})
                                     \union (IF Identified THEN {Foreign} ELSE {})
  /\ has \in [Objects -> SUBSET Parts]
  /\ pc \in [Writers -> Places]
  /\ my \in [Writers -> [published : {"no", "yes", "unknown"}, failed : BOOLEAN]]
  /\ told \in [Writers -> {"nothing", "created", "existing", "published", "refused",
                           "unknown", "failed"}]
  /\ swept \subseteq Writers

Init ==
  /\ kind \in Kinds
  /\ at = [p \in Paths |-> None] /\ has = [o \in Objects |-> {}]
  /\ pc = [w \in Writers |-> "start"]
  /\ my = [w \in Writers |-> [published |-> "no", failed |-> FALSE]]
  /\ told = [w \in Writers |-> "nothing"] /\ swept = {}

\* Faulty variant: one name for the temporary of every writer.
TempShared(w) == Staging
Temp(w)  == IF kind = "fixed" THEN Staging ELSE w
Whole(p) == at[p] # None /\ has[at[p]] = Parts

Goto(w, place) == pc' = [pc EXCEPT ![w] = place]

\* The call ends; clean says that it reports no trouble with its temporary.
Tell(w, answer, clean) ==
  /\ Goto(w, "done")
  /\ told' = [told EXCEPT ![w] = answer]
  /\ swept' = IF clean THEN swept \union {w} ELSE swept
Silent == UNCHANGED <<told, swept>>

-----------------------------------------------------------------------------
(***************************************************************************)
(* Before anything is written                                              *)
(***************************************************************************)
\* lexists, or the final directory: a file is a conflict, a build is verified.
\* A verification may always fail; it succeeds only on a whole build.
Check(w) ==
  /\ pc[w] = "start"
  /\ \/ at[Target] = None /\ Goto(w, "absent") /\ Silent
     \/ at[Target] # None /\ ~Build /\ Tell(w, "refused", TRUE)
     \/ at[Target] # None /\ Build /\ Tell(w, "failed", TRUE)
     \/ Build /\ Whole(Target) /\ Tell(w, "existing", TRUE)
  /\ UNCHANGED <<kind, at, has, my>>

\* The fixed staging path: residue or a concurrent build is refused.
CheckStaging(w) ==
  /\ pc[w] = "absent" /\ kind = "fixed"
  /\ IF at[Staging] = None THEN Goto(w, "clear") /\ Silent ELSE Tell(w, "failed", TRUE)
  /\ UNCHANGED <<kind, at, has, my>>

\* mkstemp, mkdir: exclusive creation.  It may fail, also after the creation but
\* before the ownership is recorded, which leaves the object.
Make(w) ==
  /\ pc[w] = (IF kind = "fixed" THEN "clear" ELSE "absent")
  /\ \/ /\ at[Temp(w)] = None
        /\ at' = [at EXCEPT ![Temp(w)] = w]
        /\ \/ Goto(w, "made") /\ Silent
           \/ kind # "fixed" /\ Tell(w, IF Build THEN "failed" ELSE "refused", FALSE)
     \/ Tell(w, IF Build THEN "failed" ELSE "refused", TRUE) /\ UNCHANGED at
  /\ UNCHANGED <<kind, has, my>>

-----------------------------------------------------------------------------
(***************************************************************************)
(* Writing                                                                 *)
(***************************************************************************)
\* An exception; its handler cleans up.  In the file's case the finally clause.
Raise(w) ==
  /\ Goto(w, IF Build THEN "raised" ELSE "cleanup")
  /\ my' = [my EXCEPT ![w].failed = TRUE]
  /\ Silent /\ UNCHANGED <<at, has>>

\* _check_owner, _verify_owned_temporary: the path still shows this call's object.
Owned(w) == at[Temp(w)] = w

\* Where a part goes: into the open file, or into the directory at the path, where
\* it must not exist yet.
Into(w) == IF Build THEN at[Temp(w)] ELSE w
Writes(w, part) ==
  /\ Into(w) # None /\ (Build => part \notin has[Into(w)])
  /\ Owner => Owned(w)
  /\ has' = [has EXCEPT ![Into(w)] = @ \union {part}]
  /\ UNCHANGED <<at, my>> /\ Silent

WriteMembers(w) ==
  /\ pc[w] = "made"
  /\ \/ Writes(w, "members") /\ Goto(w, "members")
     \/ Raise(w)
  /\ UNCHANGED kind

\* Faulty variant: what was written is not verified.
Unverified(w) == Into(w) # None
\* What is verified before it is published: the identity of the temporary file and
\* the absence of the target, the members of a build.
Verified(w) ==
  /\ Into(w) # None /\ "members" \in has[Into(w)]
  /\ ~Build => Owned(w) /\ at[Target] = None

\* Flush, sync and close; for a build the marker that is written last.
WriteSuccess(w) ==
  /\ pc[w] = "members"
  /\ \/ Writes(w, "_SUCCESS") /\ Verified(w) /\ Goto(w, "whole")
     \/ Raise(w)
  /\ UNCHANGED kind

-----------------------------------------------------------------------------
(***************************************************************************)
(* Publishing                                                              *)
(***************************************************************************)
\* os.link, renameat2 with RENAME_NOREPLACE and the Windows rename refuse an
\* existing target; a plain rename refuses a directory that is not empty.
MayBind == at[Target] = None

\* The file stays at the temporary path too, a directory leaves it.  A directory
\* with an identity is checked once more; otherwise what the path shows is taken.
Bind(w) ==
  /\ MayBind /\ at[Temp(w)] # None /\ (Owner => Owned(w))
  /\ at' = [at EXCEPT ![Target] = at[Temp(w)], ![Temp(w)] = IF Build THEN None ELSE @]

\* An exception around the call, a refused link among them: the outcome of a file
\* is inquired into; a sealed build gives its staging up; the handler of a plain
\* one catches interrupts too.
Interrupted(w) ==
  /\ \/ ~Build /\ Goto(w, "inquiry") /\ my' = [my EXCEPT ![w].failed = TRUE] /\ Silent
     \/ kind = "sealed" /\ Tell(w, "failed", FALSE) /\ UNCHANGED my
     \/ kind = "plain" /\ Goto(w, "raised") /\ my' = [my EXCEPT ![w].failed = TRUE] /\ Silent

Publish(w) ==
  /\ pc[w] = "whole"
  /\ \/ Bind(w) /\ Goto(w, "bound") /\ Silent /\ UNCHANGED my
     \/ /\ at[Target] # None /\ Build /\ kind # "plain"
        /\ Goto(w, "lost") /\ Silent /\ UNCHANGED <<at, my>>
     \/ Interrupted(w) /\ UNCHANGED at
     \/ Build /\ Raise(w)
  /\ UNCHANGED <<kind, has>>

\* The success is recorded: published = True, committed = True.  A file is cleaned
\* up next, the final directory of an owned build is verified again.
Record(w) ==
  /\ pc[w] = "bound"
  /\ \/ /\ my' = [my EXCEPT ![w].published = "yes"]
        /\ Goto(w, IF Build THEN "recorded" ELSE "cleanup") /\ Silent
     \/ Interrupted(w)
  /\ UNCHANGED <<kind, at, has>>

\* With the fixed path the result that is made of it may fail its checks, and the
\* caller then removes what the staging path shows by now.
ResultRaises(w) == kind = "fixed" /\ Raise(w)

VerifyFinal(w) ==
  /\ pc[w] = "recorded"
  /\ \/ (Owner => Whole(Target)) /\ Tell(w, "created", TRUE) /\ UNCHANGED <<at, has, my>>
     \/ Owner /\ Tell(w, "failed", TRUE) /\ UNCHANGED <<at, has, my>>
     \/ ResultRaises(w)
  /\ UNCHANGED kind

\* Faulty variant: an interrupted link counts as one that did not happen.
InquireNever(w) == "no"
Inquire(w)      == IF at[Target] = w THEN "yes" ELSE "no"
\* _reconcile_publication; an inspection that fails establishes nothing.
Reconcile(w) ==
  /\ pc[w] = "inquiry"
  /\ \E found \in {"unknown"} \union (IF Owned(w) THEN {Inquire(w)} ELSE {}) :
       my' = [my EXCEPT ![w].published = found]
  /\ Goto(w, "cleanup") /\ Silent
  /\ UNCHANGED <<kind, at, has>>

-----------------------------------------------------------------------------
(***************************************************************************)
(* Cleaning up                                                             *)
(***************************************************************************)
\* Faulty variant: whatever is at the path may go.
RemovableAny(w) == at[Temp(w)] # None
\* Only the object this call created; without an identity, what is at the path.
Removable(w)    == at[Temp(w)] # None /\ (Identified => Owned(w))
Removes(w)      == Removable(w) /\ at' = [at EXCEPT ![Temp(w)] = None]

\* The finally clause of a file.  Nothing is removed when the outcome is unknown.
Answer(w) ==
  CASE my[w].published = "unknown" -> "unknown"
    [] my[w].published = "no"      -> "refused"
    [] OTHER                       -> IF my[w].failed THEN "published" ELSE "created"
Unlink(w) ==
  /\ pc[w] = "cleanup"
  /\ \/ my[w].published # "unknown" /\ Removes(w) /\ Tell(w, Answer(w), TRUE)
     \/ /\ Tell(w, IF Answer(w) = "created" THEN "published" ELSE Answer(w), FALSE)
        /\ UNCHANGED at
  /\ UNCHANGED <<kind, has, my>>

\* What is found at the target is refused, or the result made of it is.  With the
\* fixed path the staging is removed here, and the caller removes it once more.
GivesUp(w) ==
  /\ Goto(w, "raised") /\ my' = [my EXCEPT ![w].failed = TRUE] /\ Silent
  /\ \/ kind = "fixed" /\ Removes(w)
     \/ UNCHANGED at

\* The target was there first and is verified.
Existing(w) ==
  /\ pc[w] = "lost"
  /\ \/ Whole(Target) /\ Goto(w, "settled") /\ Silent /\ UNCHANGED <<at, my>>
     \/ GivesUp(w)
  /\ UNCHANGED <<kind, has>>

\* The staging of a build that is not needed.  The fixed path ignores a failure.
RemoveUnneeded(w) ==
  /\ pc[w] = "settled"
  /\ \/ Removes(w) /\ Tell(w, "existing", TRUE) /\ UNCHANGED my
     \/ kind = "fixed" /\ Tell(w, "existing", FALSE) /\ UNCHANGED <<at, my>>
     \/ GivesUp(w)
  /\ UNCHANGED <<kind, has>>

\* The exception handler of a build.
RemoveFailed(w) ==
  /\ pc[w] = "raised"
  /\ \/ Removes(w) /\ Tell(w, "failed", TRUE)
     \/ UNCHANGED at /\ Tell(w, "failed", FALSE)
  /\ UNCHANGED <<kind, has, my>>

-----------------------------------------------------------------------------
Crash(w) ==
  /\ pc[w] # "done" /\ Goto(w, "done") /\ Silent
  /\ UNCHANGED <<kind, at, has, my>>

\* Another program replaces a temporary object that has an identity.
Replaced(w) ==
  /\ Identified /\ pc[w] \in {"made", "members", "bound", "inquiry", "lost", "raised"}
  /\ at[w] = w /\ at' = [at EXCEPT ![w] = Foreign]
  /\ UNCHANGED <<kind, has, pc, my, told, swept>>

Next == \E w \in Writers :
  \/ Check(w) \/ CheckStaging(w) \/ Make(w) \/ WriteMembers(w) \/ WriteSuccess(w)
  \/ Publish(w) \/ Record(w) \/ VerifyFinal(w) \/ Reconcile(w)
  \/ Unlink(w) \/ Existing(w) \/ RemoveUnneeded(w) \/ RemoveFailed(w)
  \/ Crash(w) \/ Replaced(w)

Spec == Init /\ [][Next]_vars

-----------------------------------------------------------------------------
(***************************************************************************)
(* Properties                                                              *)
(***************************************************************************)
\* What other readers rely on: what the target shows is whole from the moment it
\* is there, and a writer that reported no trouble left nothing behind (the fixed
\* staging excepted, whose name the next writer may use).
TargetIsWhole ==
  /\ at[Target] # None => Whole(Target)
  /\ \A w \in swept : kind # "fixed" => at[w] # w

\* A temporary object disappears only by a step of the writer that created it,
\* whatever other programs put in its place.
RemovalIsOwn ==
  \A p \in Paths, o \in Objects :
    (at[p] = o /\ at'[p] = None) => o \in Writers /\ pc'[o] # pc[o]
RemovesOwn == [][kind # "fixed" => RemovalIsOwn]_vars

\* The same of every scheme: what a call removes is a directory that it created
\* ("nothing outside the created directory is ever removed").
NothingElseRemoved == [][RemovalIsOwn]_vars

\* The detailed schemes publish as the abstract specification promises.
P == INSTANCE Publication WITH bound <- at[Target]
ImplementsPublication == P!Spec
=============================================================================
