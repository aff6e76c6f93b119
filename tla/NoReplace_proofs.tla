--------------------------- MODULE NoReplace_proofs ---------------------------
(***************************************************************************)
(* Proofs about NoReplace for any set of writers and each of its schemes.  *)
(***************************************************************************)
EXTENDS NoReplace, TLAPS

Early   == {"start", "absent", "clear"}
Staged  == {"made", "members", "whole"}

\* What a scheme never reaches.
Fits ==
  \A w \in Writers :
    /\ pc[w] = "clear" => kind = "fixed"
    /\ pc[w] \in {"recorded", "lost", "settled", "raised"} => Build
    /\ pc[w] \in {"inquiry", "cleanup"} => ~Build
    /\ pc[w] \in {"lost", "settled"} => kind # "plain"

\* Nobody is told anything before the end, nor believes in a success too early.
Quiet ==
  \A w \in Writers :
    /\ pc[w] # "done" => told[w] = "nothing" /\ w \notin swept
    /\ pc[w] \in Early \union Staged => my[w].published = "no"

\* The temporary object of a writer: not there yet, ready to be published, gone.
Temporary ==
  \A w \in Writers :
    /\ pc[w] \in Early \/ w \in swept => at[w] = None
    /\ pc[w] = "whole" /\ kind # "fixed" => at[w] = w /\ has[w] = Parts
    /\ pc[w] \in Staged /\ kind = "plain" => at[w] = w
    /\ pc[w] \in {"bound", "recorded"} /\ Build => at[w] = None

\* As long as nothing is published, whoever works behind the shared name made
\* what it shows; so there is one at most.
Shared ==
  \A w \in Writers :
    kind = "fixed" /\ at[Target] = None =>
      /\ pc[w] \in Staged \union {"raised"} => at[Staging] = w
      /\ pc[w] = "whole" => has[w] = Parts

\* What a writer knows of the target.
Known ==
  \A w \in Writers :
    /\ at[Target] = w => \/ pc[w] \in {"bound", "recorded", "inquiry", "cleanup", "done"}
                         \/ pc[w] = "raised" /\ kind \in {"plain", "fixed"}
    /\ pc[w] \in {"bound", "recorded"} => at[Target] = w
    /\ pc[w] \in {"lost", "settled"} => at[Target] # None
    /\ pc[w] = "cleanup" => /\ my[w].published = "yes" => at[Target] = w
                            /\ my[w].published = "no"  => at[Target] # w

Published == at[Target] # None => has[at[Target]] = Parts

Inv == TypeOK /\ Fits /\ Quiet /\ Temporary /\ Shared /\ Known /\ Published

LEMMA InvInit == Init => Inv
BY NameAssumption DEF Init, Inv, TypeOK, Fits, Quiet, Temporary, Shared, Known, Published,
   Kinds, Paths, Objects, Parts, Places, Early, Staged, Build, Owner, Identified

\* Assigning one belief of one writer.
Beliefs == [published : {"no", "yes", "unknown"}, failed : BOOLEAN]
LEMMA Assign ==
  ASSUME my \in [Writers -> Beliefs], NEW w \in Writers
  PROVE  /\ [my EXCEPT ![w].failed = TRUE] \in [Writers -> Beliefs]
         /\ [my EXCEPT ![w].published = "yes"] \in [Writers -> Beliefs]
<1>1. my[w] \in Beliefs
  OBVIOUS
<1>2. [my[w] EXCEPT !.failed = TRUE] \in Beliefs
  BY <1>1 DEF Beliefs
<1>3. [my[w] EXCEPT !.published = "yes"] \in Beliefs
  BY <1>1 DEF Beliefs
<1> QED BY <1>2, <1>3

LEMMA CheckStep ==
  ASSUME Inv, NEW w \in Writers, Check(w)
  PROVE  Inv'
<1> USE NameAssumption DEF Inv, TypeOK, Kinds, Paths, Objects, Places, Parts, Build, Owner, Identified, Goto
<1>1. TypeOK'
  <2>1. /\ kind' \in Kinds /\ at' \in [Paths -> Objects \union {None}]
        /\ (at[Target] # Foreign /\ at[Staging] \in (IF kind = "fixed" THEN Writers ELSE {}) \union {None})'
        /\ (\A v \in Writers : at[v] \in {None} \union (IF kind = "fixed" THEN {} ELSE {v})
                                        \union (IF Identified THEN {Foreign} ELSE {}))'
    BY DEF Check, Tell, Silent, Whole, Temporary, Shared, Fits
  <2>2. has' \in [Objects -> SUBSET Parts] /\ pc' \in [Writers -> Places]
    BY DEF Check, Tell, Silent, Whole
  <2>3. my' \in [Writers -> [published : {"no", "yes", "unknown"}, failed : BOOLEAN]]
    BY DEF Check, Tell, Silent, Whole
  <2>4. /\ told' \in [Writers -> {"nothing", "created", "existing", "published", "refused",
                                "unknown", "failed"}]
        /\ swept' \subseteq Writers
    BY DEF Check, Tell, Silent, Whole
  <2> QED BY <2>1, <2>2, <2>3, <2>4
<1>2. Fits' /\ Quiet'
  BY DEF Check, Tell, Silent, Whole, Fits, Quiet, Early, Staged
<1>3. Temporary'
  BY DEF Check, Tell, Silent, Whole, Fits, Quiet, Temporary, Early, Staged
<1>4. Shared'
  BY DEF Check, Tell, Silent, Whole, Fits, Shared, Known, Staged
<1>5. Known'
  BY DEF Check, Tell, Silent, Whole, Fits, Temporary, Shared, Known, Quiet, Early, Staged
<1>6. Published'
  BY DEF Check, Tell, Silent, Whole, Fits, Temporary, Shared, Published
<1> QED BY <1>1, <1>2, <1>3, <1>4, <1>5, <1>6

LEMMA CheckStagingStep ==
  ASSUME Inv, NEW w \in Writers, CheckStaging(w)
  PROVE  Inv'
<1> USE NameAssumption DEF Inv, TypeOK, Kinds, Paths, Objects, Places, Parts, Build, Owner, Identified, Goto
<1>1. TypeOK'
  BY DEF CheckStaging, Tell, Silent, Temporary, Fits
<1>2. Fits' /\ Quiet'
  BY DEF CheckStaging, Tell, Silent, Fits, Quiet, Early, Staged
<1>3. Temporary'
  BY DEF CheckStaging, Tell, Silent, Fits, Quiet, Temporary, Early, Staged
<1>4. Shared'
  BY DEF CheckStaging, Tell, Silent, Fits, Shared, Known, Staged
<1>5. Known'
  BY DEF CheckStaging, Tell, Silent, Fits, Temporary, Shared, Known, Quiet, Early, Staged
<1>6. Published'
  BY DEF CheckStaging, Tell, Silent, Fits, Temporary, Shared, Published
<1> QED BY <1>1, <1>2, <1>3, <1>4, <1>5, <1>6

LEMMA MakeStep ==
  ASSUME Inv, NEW w \in Writers, Make(w)
  PROVE  Inv'
<1> USE NameAssumption DEF Inv, TypeOK, Kinds, Paths, Objects, Places, Parts, Build, Owner, Identified, Goto
<1>1. TypeOK'
  BY DEF Make, Tell, Silent, Temp, Temporary, Fits
<1>2. Fits' /\ Quiet'
  BY DEF Make, Tell, Silent, Temp, Fits, Quiet, Early, Staged
<1>3. Temporary'
  BY DEF Make, Tell, Silent, Temp, Fits, Quiet, Temporary, Early, Staged
<1>4. Shared'
  BY DEF Make, Tell, Silent, Temp, Fits, Shared, Known, Staged
<1>5. Known'
  BY DEF Make, Tell, Silent, Temp, Fits, Temporary, Shared, Known, Quiet, Early, Staged
<1>6. Published'
  BY DEF Make, Tell, Silent, Temp, Fits, Temporary, Shared, Published
<1> QED BY <1>1, <1>2, <1>3, <1>4, <1>5, <1>6

LEMMA WriteMembersStep ==
  ASSUME Inv, NEW w \in Writers, WriteMembers(w)
  PROVE  Inv'
<1> USE NameAssumption DEF Inv, TypeOK, Kinds, Paths, Objects, Places, Parts, Build, Owner, Identified, Goto
<1>1. TypeOK'
  <2>1. /\ kind' \in Kinds /\ at' \in [Paths -> Objects \union {None}]
        /\ (at[Target] # Foreign /\ at[Staging] \in (IF kind = "fixed" THEN Writers ELSE {}) \union {None})'
        /\ (\A v \in Writers : at[v] \in {None} \union (IF kind = "fixed" THEN {} ELSE {v})
                                        \union (IF Identified THEN {Foreign} ELSE {}))'
    BY DEF WriteMembers, Writes, Into, Owned, Raise, Silent, Temp, Temporary, Shared, Fits
  <2>2. has' \in [Objects -> SUBSET Parts] /\ pc' \in [Writers -> Places]
    <3>1. Into(w) # None => Into(w) \in Objects
      BY DEF Into, Temp
    <3>2. has' \in [Objects -> SUBSET Parts]
      BY <3>1 DEF WriteMembers, Writes, Raise
    <3>3. pc' \in [Writers -> Places]
      BY DEF WriteMembers, Raise
    <3> QED BY <3>2, <3>3
  <2>3. my' \in [Writers -> Beliefs]
    <3>1. my \in [Writers -> Beliefs]
      BY DEF Beliefs
    <3>2. \/ my' = my \/ my' = [my EXCEPT ![w].failed = TRUE]
          \/ my' = [my EXCEPT ![w].published = "yes"]
      BY DEF WriteMembers, Writes, Into, Owned, Raise, Silent, Temp
    <3>3. /\ [my EXCEPT ![w].failed = TRUE] \in [Writers -> Beliefs]
          /\ [my EXCEPT ![w].published = "yes"] \in [Writers -> Beliefs]
      BY <3>1, Assign, Zenon
    <3> QED BY <3>1, <3>2, <3>3, Zenon
  <2>4. /\ told' \in [Writers -> {"nothing", "created", "existing", "published", "refused",
                                "unknown", "failed"}]
        /\ swept' \subseteq Writers
    BY DEF WriteMembers, Writes, Into, Owned, Raise, Silent, Temp
  <2> QED BY <2>1, <2>2, <2>3, <2>4 DEF Beliefs
<1>2. Fits' /\ Quiet'
  BY DEF WriteMembers, Writes, Into, Owned, Raise, Silent, Temp, Fits, Quiet, Early, Staged
<1>3. Temporary'
  BY DEF WriteMembers, Writes, Into, Owned, Raise, Silent, Temp, Fits, Quiet, Temporary, Early, Staged
<1>4. Shared'
  BY DEF WriteMembers, Writes, Into, Owned, Raise, Silent, Temp, Fits, Shared, Known, Staged
<1>5. Known'
  BY DEF WriteMembers, Writes, Into, Owned, Raise, Silent, Temp, Fits, Temporary, Shared, Known, Quiet, Early, Staged
<1>6. Published'
  BY DEF WriteMembers, Writes, Into, Owned, Raise, Silent, Temp, Fits, Temporary, Shared, Published
<1> QED BY <1>1, <1>2, <1>3, <1>4, <1>5, <1>6

LEMMA WriteSuccessStep ==
  ASSUME Inv, NEW w \in Writers, WriteSuccess(w)
  PROVE  Inv'
<1> USE NameAssumption DEF Inv, TypeOK, Kinds, Paths, Objects, Places, Parts, Build, Owner, Identified, Goto
<1>1. TypeOK'
  <2>1. /\ kind' \in Kinds /\ at' \in [Paths -> Objects \union {None}]
        /\ (at[Target] # Foreign /\ at[Staging] \in (IF kind = "fixed" THEN Writers ELSE {}) \union {None})'
        /\ (\A v \in Writers : at[v] \in {None} \union (IF kind = "fixed" THEN {} ELSE {v})
                                        \union (IF Identified THEN {Foreign} ELSE {}))'
    BY DEF WriteSuccess, Writes, Into, Owned, Verified, Raise, Silent, Temp, Temporary, Shared, Fits
  <2>2. has' \in [Objects -> SUBSET Parts] /\ pc' \in [Writers -> Places]
    BY DEF WriteSuccess, Writes, Into, Owned, Verified, Raise, Silent, Temp
  <2>3. my' \in [Writers -> Beliefs]
    <3>1. my \in [Writers -> Beliefs]
      BY DEF Beliefs
    <3>2. \/ my' = my \/ my' = [my EXCEPT ![w].failed = TRUE]
          \/ my' = [my EXCEPT ![w].published = "yes"]
      BY DEF WriteSuccess, Writes, Into, Owned, Verified, Raise, Silent, Temp
    <3>3. /\ [my EXCEPT ![w].failed = TRUE] \in [Writers -> Beliefs]
          /\ [my EXCEPT ![w].published = "yes"] \in [Writers -> Beliefs]
      BY <3>1, Assign, Zenon
    <3> QED BY <3>1, <3>2, <3>3, Zenon
  <2>4. /\ told' \in [Writers -> {"nothing", "created", "existing", "published", "refused",
                                "unknown", "failed"}]
        /\ swept' \subseteq Writers
    BY DEF WriteSuccess, Writes, Into, Owned, Verified, Raise, Silent, Temp
  <2> QED BY <2>1, <2>2, <2>3, <2>4 DEF Beliefs
<1>2. Fits' /\ Quiet'
  BY DEF WriteSuccess, Writes, Into, Owned, Verified, Raise, Silent, Temp, Fits, Quiet, Early, Staged
<1>3. Temporary'
  BY DEF WriteSuccess, Writes, Into, Owned, Verified, Raise, Silent, Temp, Fits, Quiet, Temporary, Early, Staged
<1>4. Shared'
  BY DEF WriteSuccess, Writes, Into, Owned, Verified, Raise, Silent, Temp, Fits, Shared, Known, Staged
<1>5. Known'
  BY DEF WriteSuccess, Writes, Into, Owned, Verified, Raise, Silent, Temp, Fits, Temporary, Shared, Known, Quiet, Early, Staged
<1>6. Published'
  BY DEF WriteSuccess, Writes, Into, Owned, Verified, Raise, Silent, Temp, Fits, Temporary, Shared, Published
<1> QED BY <1>1, <1>2, <1>3, <1>4, <1>5, <1>6

LEMMA PublishStep ==
  ASSUME Inv, NEW w \in Writers, Publish(w)
  PROVE  Inv'
<1> USE NameAssumption DEF Inv, TypeOK, Kinds, Paths, Objects, Places, Parts, Build, Owner, Identified, Goto
<1>1. TypeOK'
  <2>1. /\ kind' \in Kinds /\ at' \in [Paths -> Objects \union {None}]
        /\ (at[Target] # Foreign /\ at[Staging] \in (IF kind = "fixed" THEN Writers ELSE {}) \union {None})'
        /\ (\A v \in Writers : at[v] \in {None} \union (IF kind = "fixed" THEN {} ELSE {v})
                                        \union (IF Identified THEN {Foreign} ELSE {}))'
    BY DEF Publish, Bind, MayBind, Owned, Interrupted, Raise, Tell, Silent, Temp, Temporary, Shared, Fits
  <2>2. has' \in [Objects -> SUBSET Parts] /\ pc' \in [Writers -> Places]
    BY DEF Publish, Bind, MayBind, Owned, Interrupted, Raise, Tell, Silent, Temp
  <2>3. my' \in [Writers -> Beliefs]
    <3>1. my \in [Writers -> Beliefs]
      BY DEF Beliefs
    <3>2. \/ my' = my \/ my' = [my EXCEPT ![w].failed = TRUE]
          \/ my' = [my EXCEPT ![w].published = "yes"]
      BY DEF Publish, Bind, MayBind, Owned, Interrupted, Raise, Tell, Silent, Temp
    <3>3. /\ [my EXCEPT ![w].failed = TRUE] \in [Writers -> Beliefs]
          /\ [my EXCEPT ![w].published = "yes"] \in [Writers -> Beliefs]
      BY <3>1, Assign, Zenon
    <3> QED BY <3>1, <3>2, <3>3, Zenon
  <2>4. /\ told' \in [Writers -> {"nothing", "created", "existing", "published", "refused",
                                "unknown", "failed"}]
        /\ swept' \subseteq Writers
    BY DEF Publish, Bind, MayBind, Owned, Interrupted, Raise, Tell, Silent, Temp
  <2> QED BY <2>1, <2>2, <2>3, <2>4 DEF Beliefs
<1>2. Fits' /\ Quiet'
  BY DEF Publish, Bind, MayBind, Owned, Interrupted, Raise, Tell, Silent, Temp, Fits, Quiet, Early, Staged
<1>3. Temporary'
  BY DEF Publish, Bind, MayBind, Owned, Interrupted, Raise, Tell, Silent, Temp, Fits, Quiet, Temporary, Early, Staged
<1>4. Shared'
  BY DEF Publish, Bind, MayBind, Owned, Interrupted, Raise, Tell, Silent, Temp, Fits, Shared, Known, Staged
<1>5. Known'
  BY DEF Publish, Bind, MayBind, Owned, Interrupted, Raise, Tell, Silent, Temp, Fits, Temporary, Shared, Known, Quiet, Early, Staged
<1>6. Published'
  <2>1. CASE Bind(w) /\ has' = has
    <3>1. at[Temp(w)] = w /\ has[w] = Parts
      BY <2>1 DEF Publish, Bind, MayBind, Temp, Temporary, Shared, Staged
    <3>2. at'[Target] = w
      BY <2>1, <3>1 DEF Bind, Temp
    <3> QED BY <2>1, <3>1, <3>2 DEF Published
  <2>2. CASE UNCHANGED <<at, has>>
    BY <2>2 DEF Published
  <2> QED BY <2>1, <2>2 DEF Publish, Raise
<1> QED BY <1>1, <1>2, <1>3, <1>4, <1>5, <1>6

LEMMA RecordStep ==
  ASSUME Inv, NEW w \in Writers, Record(w)
  PROVE  Inv'
<1> USE NameAssumption DEF Inv, TypeOK, Kinds, Paths, Objects, Places, Parts, Build, Owner, Identified, Goto
<1>1. TypeOK'
  <2>1. /\ kind' \in Kinds /\ at' \in [Paths -> Objects \union {None}]
        /\ (at[Target] # Foreign /\ at[Staging] \in (IF kind = "fixed" THEN Writers ELSE {}) \union {None})'
        /\ (\A v \in Writers : at[v] \in {None} \union (IF kind = "fixed" THEN {} ELSE {v})
                                        \union (IF Identified THEN {Foreign} ELSE {}))'
    BY DEF Record, Interrupted, Tell, Silent, Temporary, Shared, Fits
  <2>2. has' \in [Objects -> SUBSET Parts] /\ pc' \in [Writers -> Places]
    BY DEF Record, Interrupted, Tell, Silent
  <2>3. my' \in [Writers -> Beliefs]
    <3>1. my \in [Writers -> Beliefs]
      BY DEF Beliefs
    <3>2. \/ my' = my \/ my' = [my EXCEPT ![w].failed = TRUE]
          \/ my' = [my EXCEPT ![w].published = "yes"]
      BY DEF Record, Interrupted, Tell, Silent
    <3>3. /\ [my EXCEPT ![w].failed = TRUE] \in [Writers -> Beliefs]
          /\ [my EXCEPT ![w].published = "yes"] \in [Writers -> Beliefs]
      BY <3>1, Assign, Zenon
    <3> QED BY <3>1, <3>2, <3>3, Zenon
  <2>4. /\ told' \in [Writers -> {"nothing", "created", "existing", "published", "refused",
                                "unknown", "failed"}]
        /\ swept' \subseteq Writers
    BY DEF Record, Interrupted, Tell, Silent
  <2> QED BY <2>1, <2>2, <2>3, <2>4 DEF Beliefs
<1>2. Fits' /\ Quiet'
  BY DEF Record, Interrupted, Tell, Silent, Fits, Quiet, Early, Staged
<1>3. Temporary'
  BY DEF Record, Interrupted, Tell, Silent, Fits, Quiet, Temporary, Early, Staged
<1>4. Shared'
  BY DEF Record, Interrupted, Tell, Silent, Fits, Shared, Known, Staged
<1>5. Known'
  BY DEF Record, Interrupted, Tell, Silent, Fits, Temporary, Shared, Known, Quiet, Early, Staged
<1>6. Published'
  BY DEF Record, Interrupted, Tell, Silent, Fits, Temporary, Shared, Published
<1> QED BY <1>1, <1>2, <1>3, <1>4, <1>5, <1>6

LEMMA VerifyFinalStep ==
  ASSUME Inv, NEW w \in Writers, VerifyFinal(w)
  PROVE  Inv'
<1> USE NameAssumption DEF Inv, TypeOK, Kinds, Paths, Objects, Places, Parts, Build, Owner, Identified, Goto
<1>1. TypeOK'
  <2>1. /\ kind' \in Kinds /\ at' \in [Paths -> Objects \union {None}]
        /\ (at[Target] # Foreign /\ at[Staging] \in (IF kind = "fixed" THEN Writers ELSE {}) \union {None})'
        /\ (\A v \in Writers : at[v] \in {None} \union (IF kind = "fixed" THEN {} ELSE {v})
                                        \union (IF Identified THEN {Foreign} ELSE {}))'
    BY DEF VerifyFinal, ResultRaises, Raise, Silent, Tell, Whole, Temporary, Shared, Fits
  <2>2. has' \in [Objects -> SUBSET Parts] /\ pc' \in [Writers -> Places]
    BY DEF VerifyFinal, ResultRaises, Raise, Silent, Tell, Whole
  <2>3. my' \in [Writers -> Beliefs]
    <3>1. my \in [Writers -> Beliefs]
      BY DEF Beliefs
    <3>2. my' = my \/ my' = [my EXCEPT ![w].failed = TRUE]
      BY DEF VerifyFinal, ResultRaises, Raise
    <3>3. [my EXCEPT ![w].failed = TRUE] \in [Writers -> Beliefs]
      BY <3>1, Assign, Zenon
    <3> QED BY <3>1, <3>2, <3>3, Zenon
  <2>4. /\ told' \in [Writers -> {"nothing", "created", "existing", "published", "refused",
                                "unknown", "failed"}]
        /\ swept' \subseteq Writers
    BY DEF VerifyFinal, ResultRaises, Raise, Silent, Tell, Whole
  <2> QED BY <2>1, <2>2, <2>3, <2>4 DEF Beliefs
<1>2. Fits' /\ Quiet'
  BY DEF VerifyFinal, ResultRaises, Raise, Silent, Tell, Whole, Fits, Quiet, Early, Staged
<1>3. Temporary'
  BY DEF VerifyFinal, ResultRaises, Raise, Silent, Tell, Whole, Fits, Quiet, Temporary, Early, Staged
<1>4. Shared'
  BY DEF VerifyFinal, ResultRaises, Raise, Silent, Tell, Whole, Fits, Shared, Known, Staged
<1>5. Known'
  BY DEF VerifyFinal, ResultRaises, Raise, Silent, Tell, Whole, Fits, Temporary, Shared, Known, Quiet, Early, Staged
<1>6. Published'
  BY DEF VerifyFinal, ResultRaises, Raise, Silent, Tell, Whole, Fits, Temporary, Shared, Published
<1> QED BY <1>1, <1>2, <1>3, <1>4, <1>5, <1>6

LEMMA ReconcileStep ==
  ASSUME Inv, NEW w \in Writers, Reconcile(w)
  PROVE  Inv'
<1> USE NameAssumption DEF Inv, TypeOK, Kinds, Paths, Objects, Places, Parts, Build, Owner, Identified, Goto
<1>1. TypeOK'
  BY DEF Reconcile, Inquire, Owned, Silent, Temp, Temporary, Fits
<1>2. Fits' /\ Quiet'
  BY DEF Reconcile, Inquire, Owned, Silent, Temp, Fits, Quiet, Early, Staged
<1>3. Temporary'
  BY DEF Reconcile, Inquire, Owned, Silent, Temp, Fits, Quiet, Temporary, Early, Staged
<1>4. Shared'
  BY DEF Reconcile, Inquire, Owned, Silent, Temp, Fits, Shared, Known, Staged
<1>5. Known'
  BY DEF Reconcile, Inquire, Owned, Silent, Temp, Fits, Temporary, Shared, Known, Quiet, Early, Staged
<1>6. Published'
  BY DEF Reconcile, Inquire, Owned, Silent, Temp, Fits, Temporary, Shared, Published
<1> QED BY <1>1, <1>2, <1>3, <1>4, <1>5, <1>6

LEMMA UnlinkStep ==
  ASSUME Inv, NEW w \in Writers, Unlink(w)
  PROVE  Inv'
<1> USE NameAssumption DEF Inv, TypeOK, Kinds, Paths, Objects, Places, Parts, Build, Owner, Identified, Goto
<1>1. TypeOK'
  <2>1. /\ kind' \in Kinds /\ at' \in [Paths -> Objects \union {None}]
        /\ (at[Target] # Foreign /\ at[Staging] \in (IF kind = "fixed" THEN Writers ELSE {}) \union {None})'
        /\ (\A v \in Writers : at[v] \in {None} \union (IF kind = "fixed" THEN {} ELSE {v})
                                        \union (IF Identified THEN {Foreign} ELSE {}))'
    BY DEF Unlink, Removes, Removable, Owned, Temp, Tell, Answer, Temporary, Shared, Fits
  <2>2. has' \in [Objects -> SUBSET Parts] /\ pc' \in [Writers -> Places]
    BY DEF Unlink, Removes, Removable, Owned, Temp, Tell, Answer
  <2>3. my' \in [Writers -> [published : {"no", "yes", "unknown"}, failed : BOOLEAN]]
    BY DEF Unlink, Removes, Removable, Owned, Temp, Tell, Answer
  <2>4. /\ told' \in [Writers -> {"nothing", "created", "existing", "published", "refused",
                                "unknown", "failed"}]
        /\ swept' \subseteq Writers
    BY DEF Unlink, Removes, Removable, Owned, Temp, Tell, Answer
  <2> QED BY <2>1, <2>2, <2>3, <2>4
<1>2. Fits' /\ Quiet'
  BY DEF Unlink, Removes, Removable, Owned, Temp, Tell, Answer, Fits, Quiet, Early, Staged
<1>3. Temporary'
  BY DEF Unlink, Removes, Removable, Owned, Temp, Tell, Answer, Fits, Quiet, Temporary, Early, Staged
<1>4. Shared'
  BY DEF Unlink, Removes, Removable, Owned, Temp, Tell, Answer, Fits, Shared, Known, Staged
<1>5. Known'
  BY DEF Unlink, Removes, Removable, Owned, Temp, Tell, Answer, Fits, Temporary, Shared, Known, Quiet, Early, Staged
<1>6. Published'
  BY DEF Unlink, Removes, Removable, Owned, Temp, Tell, Answer, Fits, Temporary, Shared, Published
<1> QED BY <1>1, <1>2, <1>3, <1>4, <1>5, <1>6

LEMMA ExistingStep ==
  ASSUME Inv, NEW w \in Writers, Existing(w)
  PROVE  Inv'
<1> USE NameAssumption DEF Inv, TypeOK, Kinds, Paths, Objects, Places, Parts, Build, Owner, Identified, Goto
<1>1. TypeOK'
  <2>1. /\ kind' \in Kinds /\ at' \in [Paths -> Objects \union {None}]
        /\ (at[Target] # Foreign /\ at[Staging] \in (IF kind = "fixed" THEN Writers ELSE {}) \union {None})'
        /\ (\A v \in Writers : at[v] \in {None} \union (IF kind = "fixed" THEN {} ELSE {v})
                                        \union (IF Identified THEN {Foreign} ELSE {}))'
    BY DEF Existing, GivesUp, Whole, Silent, Removes, Removable, Owned, Temp, Temporary, Shared, Fits
  <2>2. has' \in [Objects -> SUBSET Parts] /\ pc' \in [Writers -> Places]
    BY DEF Existing, GivesUp, Whole, Silent, Removes, Removable, Owned, Temp
  <2>3. my' \in [Writers -> Beliefs]
    <3>1. my \in [Writers -> Beliefs]
      BY DEF Beliefs
    <3>2. \/ my' = my \/ my' = [my EXCEPT ![w].failed = TRUE]
          \/ my' = [my EXCEPT ![w].published = "yes"]
      BY DEF Existing, GivesUp, Whole, Silent, Removes, Removable, Owned, Temp
    <3>3. /\ [my EXCEPT ![w].failed = TRUE] \in [Writers -> Beliefs]
          /\ [my EXCEPT ![w].published = "yes"] \in [Writers -> Beliefs]
      BY <3>1, Assign, Zenon
    <3> QED BY <3>1, <3>2, <3>3, Zenon
  <2>4. /\ told' \in [Writers -> {"nothing", "created", "existing", "published", "refused",
                                "unknown", "failed"}]
        /\ swept' \subseteq Writers
    BY DEF Existing, GivesUp, Whole, Silent, Removes, Removable, Owned, Temp
  <2> QED BY <2>1, <2>2, <2>3, <2>4 DEF Beliefs
<1>2. Fits' /\ Quiet'
  BY DEF Existing, GivesUp, Whole, Silent, Removes, Removable, Owned, Temp, Fits, Quiet, Early, Staged
<1>3. Temporary'
  BY DEF Existing, GivesUp, Whole, Silent, Removes, Removable, Owned, Temp, Fits, Quiet, Temporary, Early, Staged
<1>4. Shared'
  BY DEF Existing, GivesUp, Whole, Silent, Removes, Removable, Owned, Temp, Fits, Shared, Known, Staged
<1>5. Known'
  BY DEF Existing, GivesUp, Whole, Silent, Removes, Removable, Owned, Temp, Fits, Temporary, Shared, Known, Quiet, Early, Staged
<1>6. Published'
  BY DEF Existing, GivesUp, Whole, Silent, Removes, Removable, Owned, Temp, Fits, Temporary, Shared, Published
<1> QED BY <1>1, <1>2, <1>3, <1>4, <1>5, <1>6

LEMMA RemoveUnneededStep ==
  ASSUME Inv, NEW w \in Writers, RemoveUnneeded(w)
  PROVE  Inv'
<1> USE NameAssumption DEF Inv, TypeOK, Kinds, Paths, Objects, Places, Parts, Build, Owner, Identified, Goto
<1>1. TypeOK'
  <2>1. /\ kind' \in Kinds /\ at' \in [Paths -> Objects \union {None}]
        /\ (at[Target] # Foreign /\ at[Staging] \in (IF kind = "fixed" THEN Writers ELSE {}) \union {None})'
        /\ (\A v \in Writers : at[v] \in {None} \union (IF kind = "fixed" THEN {} ELSE {v})
                                        \union (IF Identified THEN {Foreign} ELSE {}))'
    BY DEF RemoveUnneeded, GivesUp, Removes, Removable, Owned, Temp, Tell, Silent, Temporary, Shared, Fits
  <2>2. has' \in [Objects -> SUBSET Parts] /\ pc' \in [Writers -> Places]
    BY DEF RemoveUnneeded, GivesUp, Removes, Removable, Owned, Temp, Tell, Silent
  <2>3. my' \in [Writers -> Beliefs]
    <3>1. my \in [Writers -> Beliefs]
      BY DEF Beliefs
    <3>2. \/ my' = my \/ my' = [my EXCEPT ![w].failed = TRUE]
          \/ my' = [my EXCEPT ![w].published = "yes"]
      BY DEF RemoveUnneeded, GivesUp, Removes, Removable, Owned, Temp, Tell, Silent
    <3>3. /\ [my EXCEPT ![w].failed = TRUE] \in [Writers -> Beliefs]
          /\ [my EXCEPT ![w].published = "yes"] \in [Writers -> Beliefs]
      BY <3>1, Assign, Zenon
    <3> QED BY <3>1, <3>2, <3>3, Zenon
  <2>4. /\ told' \in [Writers -> {"nothing", "created", "existing", "published", "refused",
                                "unknown", "failed"}]
        /\ swept' \subseteq Writers
    BY DEF RemoveUnneeded, GivesUp, Removes, Removable, Owned, Temp, Tell, Silent
  <2> QED BY <2>1, <2>2, <2>3, <2>4 DEF Beliefs
<1>2. Fits' /\ Quiet'
  BY DEF RemoveUnneeded, GivesUp, Removes, Removable, Owned, Temp, Tell, Silent, Fits, Quiet, Early, Staged
<1>3. Temporary'
  BY DEF RemoveUnneeded, GivesUp, Removes, Removable, Owned, Temp, Tell, Silent, Fits, Quiet, Temporary, Early, Staged
<1>4. Shared'
  BY DEF RemoveUnneeded, GivesUp, Removes, Removable, Owned, Temp, Tell, Silent, Fits, Shared, Known, Staged
<1>5. Known'
  BY DEF RemoveUnneeded, GivesUp, Removes, Removable, Owned, Temp, Tell, Silent, Fits, Temporary, Shared, Known, Quiet, Early, Staged
<1>6. Published'
  BY DEF RemoveUnneeded, GivesUp, Removes, Removable, Owned, Temp, Tell, Silent, Fits, Temporary, Shared, Published
<1> QED BY <1>1, <1>2, <1>3, <1>4, <1>5, <1>6

LEMMA RemoveFailedStep ==
  ASSUME Inv, NEW w \in Writers, RemoveFailed(w)
  PROVE  Inv'
<1> USE NameAssumption DEF Inv, TypeOK, Kinds, Paths, Objects, Places, Parts, Build, Owner, Identified, Goto
<1>1. TypeOK'
  <2>1. /\ kind' \in Kinds /\ at' \in [Paths -> Objects \union {None}]
        /\ (at[Target] # Foreign /\ at[Staging] \in (IF kind = "fixed" THEN Writers ELSE {}) \union {None})'
        /\ (\A v \in Writers : at[v] \in {None} \union (IF kind = "fixed" THEN {} ELSE {v})
                                        \union (IF Identified THEN {Foreign} ELSE {}))'
    <3>1. CASE at' = at
      BY <3>1 DEF RemoveFailed
    <3>2. CASE Removes(w)
      <4>1. at' = [at EXCEPT ![Temp(w)] = None] /\ kind' = kind /\ Temp(w) # Target
        BY <3>2 DEF RemoveFailed, Removes, Temp
      <4> QED BY <4>1
    <3> QED BY <3>1, <3>2 DEF RemoveFailed
  <2>2. /\ has' \in [Objects -> SUBSET Parts] /\ pc' \in [Writers -> Places]
        /\ my' \in [Writers -> [published : {"no", "yes", "unknown"}, failed : BOOLEAN]]
    BY DEF RemoveFailed, Tell
  <2>3. /\ told' \in [Writers -> {"nothing", "created", "existing", "published", "refused",
                                "unknown", "failed"}]
        /\ swept' \subseteq Writers
    BY DEF RemoveFailed, Tell
  <2> QED BY <2>1, <2>2, <2>3
<1>2. Fits' /\ Quiet'
  BY DEF RemoveFailed, Removes, Removable, Owned, Temp, Tell, Fits, Quiet, Early, Staged
<1>3. Temporary'
  BY DEF RemoveFailed, Removes, Removable, Owned, Temp, Tell, Fits, Quiet, Temporary, Early, Staged
<1>4. Shared'
  BY DEF RemoveFailed, Removes, Removable, Owned, Temp, Tell, Fits, Shared, Known, Staged
<1>5. Known'
  BY DEF RemoveFailed, Removes, Removable, Owned, Temp, Tell, Fits, Temporary, Shared, Known, Quiet, Early, Staged
<1>6. Published'
  BY DEF RemoveFailed, Removes, Removable, Owned, Temp, Tell, Fits, Temporary, Shared, Published
<1> QED BY <1>1, <1>2, <1>3, <1>4, <1>5, <1>6

LEMMA CrashStep ==
  ASSUME Inv, NEW w \in Writers, Crash(w)
  PROVE  Inv'
<1> USE NameAssumption DEF Inv, TypeOK, Kinds, Paths, Objects, Places, Parts, Build, Owner, Identified, Goto
<1>1. TypeOK'
  BY DEF Crash, Silent, Temporary, Fits
<1>2. Fits' /\ Quiet'
  BY DEF Crash, Silent, Fits, Quiet, Early, Staged
<1>3. Temporary'
  BY DEF Crash, Silent, Fits, Quiet, Temporary, Early, Staged
<1>4. Shared'
  BY DEF Crash, Silent, Fits, Shared, Known, Staged
<1>5. Known'
  BY DEF Crash, Silent, Fits, Temporary, Shared, Known, Quiet, Early, Staged
<1>6. Published'
  BY DEF Crash, Silent, Fits, Temporary, Shared, Published
<1> QED BY <1>1, <1>2, <1>3, <1>4, <1>5, <1>6

LEMMA ReplacedStep ==
  ASSUME Inv, NEW w \in Writers, Replaced(w)
  PROVE  Inv'
<1> USE NameAssumption DEF Inv, TypeOK, Kinds, Paths, Objects, Places, Parts, Build, Owner, Identified, Goto
<1>1. TypeOK'
  BY DEF Replaced, Temporary, Fits
<1>2. Fits' /\ Quiet'
  BY DEF Replaced, Fits, Quiet, Early, Staged
<1>3. Temporary'
  BY DEF Replaced, Fits, Quiet, Temporary, Early, Staged
<1>4. Shared'
  BY DEF Replaced, Fits, Shared, Known, Staged
<1>5. Known'
  BY DEF Replaced, Fits, Temporary, Shared, Known, Quiet, Early, Staged
<1>6. Published'
  BY DEF Replaced, Fits, Temporary, Shared, Published
<1> QED BY <1>1, <1>2, <1>3, <1>4, <1>5, <1>6

LEMMA InvStep == Inv /\ [Next]_vars => Inv'
<1> SUFFICES ASSUME Inv, [Next]_vars PROVE Inv'
  OBVIOUS
<1>1. ASSUME NEW w \in Writers,
             \/ Check(w) \/ CheckStaging(w) \/ Make(w) \/ WriteMembers(w) \/ WriteSuccess(w)
             \/ Publish(w) \/ Record(w) \/ VerifyFinal(w) \/ Reconcile(w)
             \/ Unlink(w) \/ Existing(w) \/ RemoveUnneeded(w) \/ RemoveFailed(w)
             \/ Crash(w) \/ Replaced(w)
      PROVE  Inv'
  BY <1>1, CheckStep, CheckStagingStep, MakeStep, WriteMembersStep, WriteSuccessStep,
     PublishStep, RecordStep, VerifyFinalStep, ReconcileStep, UnlinkStep, ExistingStep,
     RemoveUnneededStep, RemoveFailedStep, CrashStep, ReplacedStep
<1>2. CASE UNCHANGED vars
  BY <1>2 DEF vars, Inv, TypeOK, Fits, Quiet, Temporary, Shared, Known, Published, Build, Owner,
              Identified
<1> QED BY <1>1, <1>2 DEF Next

\* The invariant of the publication without replacement.
THEOREM InvAlways == Spec => []Inv
BY InvInit, InvStep, PTL DEF Spec

\* Every variable keeps its shape, and a temporary path shows what its scheme allows.
THEOREM TypeCorrect == Spec => []TypeOK
<1>1. Inv => TypeOK
  BY DEF Inv
<1> QED BY InvAlways, <1>1, PTL

\* A published target is whole, and a clean report leaves no temporary behind.
THEOREM TargetAlwaysWhole == Spec => []TargetIsWhole
<1>1. Inv => TargetIsWhole
  BY NameAssumption DEF Inv, TypeOK, TargetIsWhole, Whole, Published, Temporary, Paths
<1> QED BY InvAlways, <1>1, PTL

\* Only its own writer takes a temporary object away, except with the fixed name.
THEOREM RemovesOnlyOwn == Spec => RemovesOwn
<1>1. Inv /\ [Next]_vars => [kind # "fixed" => RemovalIsOwn]_vars
  <2> SUFFICES ASSUME Inv, Next, kind # "fixed",
                      NEW p \in Paths, NEW o \in Objects, at[p] = o, at'[p] = None
               PROVE  o \in Writers /\ pc'[o] # pc[o]
    BY DEF RemovalIsOwn
  <2>1. PICK w \in Writers :
             \/ Make(w) \/ Publish(w) \/ Unlink(w) \/ Existing(w) \/ RemoveUnneeded(w)
             \/ RemoveFailed(w) \/ Replaced(w) \/ UNCHANGED at
    BY DEF Next, Check, CheckStaging, WriteMembers, WriteSuccess, Record, VerifyFinal,
       ResultRaises, Reconcile, Crash, Writes, Raise
  <2> USE NameAssumption DEF Inv, TypeOK, Kinds, Paths, Objects, Temp, Build, Owner, Identified
  <2>2. ~UNCHANGED at /\ ~Make(w) /\ ~Replaced(w)
    BY DEF Make, Replaced
  <2>3. CASE Publish(w)
    BY <2>3, <2>2 DEF Publish, Bind, Temporary, Raise, Goto, Places
  <2>4. CASE Unlink(w) \/ Existing(w) \/ RemoveUnneeded(w) \/ RemoveFailed(w)
    <3>1. Removes(w)
      BY <2>4, <2>2 DEF Unlink, Existing, RemoveUnneeded, RemoveFailed, GivesUp
    <3>2. at[w] = w /\ o = w
      BY <3>1 DEF Removes, Removable, Owned
    <3>3. pc'[w] # pc[w]
      BY <2>4 DEF Unlink, Existing, RemoveUnneeded, RemoveFailed, GivesUp, Tell, Goto
    <3> QED BY <3>2, <3>3
  <2> QED BY <2>1, <2>2, <2>3, <2>4
<1> QED BY InvAlways, <1>1, PTL DEF Spec, RemovesOwn

\* How a step looks from outside: the target is bound by a writer that was told
\* nothing yet, or a writer is told something true, or neither.
Outside ==
  \/ UNCHANGED <<at[Target], told>>
  \/ \E w \in Writers : P!Bind(w) \/ \E a \in P!Answers : P!Tell(w, a)

LEMMA OutsideUnchanged ==
  ASSUME at'[Target] = at[Target], told' = told
  PROVE  Outside
BY DEF Outside

LEMMA OutsideTells ==
  ASSUME NEW w \in Writers, NEW a \in P!Answers, told[w] = "nothing",
         P!True(a, w, at[Target]), at'[Target] = at[Target],
         told' = [told EXCEPT ![w] = a]
  PROVE  Outside
BY DEF Outside, P!Tell

LEMMA OutsideStep == Inv /\ Next => Outside
<1> SUFFICES ASSUME Inv, NEW w \in Writers,
             \/ Check(w) \/ CheckStaging(w) \/ Make(w) \/ WriteMembers(w) \/ WriteSuccess(w)
             \/ Publish(w) \/ Record(w) \/ VerifyFinal(w) \/ Reconcile(w)
             \/ Unlink(w) \/ Existing(w) \/ RemoveUnneeded(w) \/ RemoveFailed(w)
             \/ Crash(w) \/ Replaced(w)
    PROVE  Outside
  BY DEF Next
<1> USE NameAssumption
<1>1. \A v \in Writers : Temp(v) # Target /\ Temp(v) \in Paths
  BY DEF Temp, Paths
<1>2. at \in [Paths -> Objects \union {None}] /\ Target \in Paths
  BY DEF Inv, TypeOK, Paths
<1>3. pc[w] # "done" => told[w] = "nothing"
  BY DEF Inv, Quiet
<1>4. CASE WriteMembers(w) \/ WriteSuccess(w) \/ Reconcile(w) \/ Crash(w) \/ Replaced(w)
  BY <1>4, <1>2, OutsideUnchanged
     DEF WriteMembers, WriteSuccess, Reconcile, Crash, Replaced, Writes, Raise, Silent
<1>5. CASE Check(w)
  <2>1. CASE told' = told
    BY <2>1, <1>5, OutsideUnchanged DEF Check
  <2>2. CASE at[Target] # None /\ ~Build /\ Tell(w, "refused", TRUE)
    BY <2>2, <1>3, <1>5, OutsideTells DEF Check, Tell, P!True, P!Answers, Inv, Known
  <2>3. CASE at[Target] # None /\ Build /\ Tell(w, "failed", TRUE)
    BY <2>3, <1>3, <1>5, OutsideTells DEF Check, Tell, P!True, P!Answers
  <2>4. CASE Build /\ Whole(Target) /\ Tell(w, "existing", TRUE)
    BY <2>4, <1>3, <1>5, OutsideTells DEF Check, Tell, P!True, P!Answers, Whole
  <2> QED BY <1>5, <2>1, <2>2, <2>3, <2>4 DEF Check, Silent
<1>6. CASE CheckStaging(w) \/ RemoveFailed(w)
  <2>1. at'[Target] = at[Target] /\ pc[w] # "done"
    BY <1>6, <1>1, <1>2 DEF CheckStaging, RemoveFailed, Removes
  <2>2. told' = told \/ told' = [told EXCEPT ![w] = "failed"]
    BY <1>6 DEF CheckStaging, RemoveFailed, Tell, Silent
  <2> QED BY <2>1, <2>2, <1>3, OutsideUnchanged, OutsideTells DEF P!True, P!Answers
<1>7. CASE Make(w)
  <2>1. at'[Target] = at[Target] /\ pc[w] # "done" /\ at[Target] # w
    BY <1>7, <1>1, <1>2 DEF Make, Inv, Known
  <2>2. \/ told' = told \/ told' = [told EXCEPT ![w] = "failed"]
        \/ told' = [told EXCEPT ![w] = "refused"]
    BY <1>7 DEF Make, Tell, Silent
  <2> QED BY <2>1, <2>2, <1>3, OutsideUnchanged, OutsideTells DEF P!True, P!Answers
<1>8. CASE Publish(w)
  <2>1. CASE Bind(w) /\ Silent
    <3>1. at[Temp(w)] = w
      BY <2>1, <1>8 DEF Publish, Bind, MayBind, Inv, Temporary, Shared, Staged, Temp
    <3>2. at'[Target] = w /\ at[Target] = None /\ told[w] = "nothing" /\ told' = told
      BY <2>1, <1>1, <1>2, <1>3, <1>8, <3>1 DEF Publish, Bind, MayBind, Silent
    <3> QED BY <3>2 DEF Outside, P!Bind
  <2>2. CASE at' = at
    <3>1. told' = told \/ told' = [told EXCEPT ![w] = "failed"]
      BY <2>2, <1>8 DEF Publish, Bind, Interrupted, Raise, Tell, Silent
    <3>2. told[w] = "nothing"
      BY <1>3, <1>8 DEF Publish
    <3> QED BY <2>2, <3>1, <3>2, OutsideUnchanged, OutsideTells DEF P!True, P!Answers
  <2> QED BY <1>8, <2>1, <2>2 DEF Publish, Raise
<1>9. CASE Record(w)
  <2>1. at' = at /\ told[w] = "nothing"
    BY <1>9, <1>3 DEF Record
  <2>2. told' = told \/ told' = [told EXCEPT ![w] = "failed"]
    BY <1>9 DEF Record, Interrupted, Tell, Silent
  <2> QED BY <2>1, <2>2, OutsideUnchanged, OutsideTells DEF P!True, P!Answers
<1>10. CASE VerifyFinal(w)
  <2>1. at' = at /\ told[w] = "nothing" /\ at[Target] = w
    BY <1>10, <1>3 DEF VerifyFinal, ResultRaises, Raise, Inv, Known
  <2>2. \/ told' = told
        \/ told' = [told EXCEPT ![w] = "created"] \/ told' = [told EXCEPT ![w] = "failed"]
    BY <1>10 DEF VerifyFinal, ResultRaises, Raise, Silent, Tell
  <2> QED BY <2>1, <2>2, OutsideUnchanged, OutsideTells DEF P!True, P!Answers
<1>11. CASE Unlink(w)
  <2>1. at'[Target] = at[Target] /\ told[w] = "nothing" /\ pc[w] = "cleanup"
    BY <1>11, <1>1, <1>2, <1>3 DEF Unlink, Removes
  <2>2. /\ my[w].published = "yes" => at[Target] = w
        /\ my[w].published = "no" => at[Target] # w
    BY <2>1 DEF Inv, Known
  <2>3. my[w].published \in {"no", "yes", "unknown"}
    BY DEF Inv, TypeOK
  <2>4. \E a \in P!Answers : P!True(a, w, at[Target]) /\ told' = [told EXCEPT ![w] = a]
    BY <1>11, <2>2, <2>3 DEF Unlink, Answer, Tell, P!True, P!Answers
  <2> QED BY <2>1, <2>4, OutsideTells
<1>12. CASE Existing(w)
  BY <1>12, <1>1, <1>2, OutsideUnchanged DEF Existing, GivesUp, Removes, Silent
<1>13. CASE RemoveUnneeded(w)
  <2>1. at'[Target] = at[Target] /\ told[w] = "nothing" /\ at[Target] # None
    BY <1>13, <1>1, <1>2, <1>3 DEF RemoveUnneeded, GivesUp, Removes, Inv, Known
  <2>2. told' = told \/ told' = [told EXCEPT ![w] = "existing"]
    BY <1>13 DEF RemoveUnneeded, GivesUp, Tell, Silent
  <2> QED BY <2>1, <2>2, OutsideUnchanged, OutsideTells DEF P!True, P!Answers
<1> QED
  BY <1>4, <1>5, <1>6, <1>7, <1>8, <1>9, <1>10, <1>11, <1>12, <1>13

\* Every scheme publishes as Publication promises: the target is bound once and
\* never replaced, and every answer a caller gets is true.
THEOREM Refinement == Spec => ImplementsPublication
<1>1. Init => P!Init
  BY NameAssumption DEF Init, P!Init, Paths
<1>2. Inv /\ [Next]_vars => [P!Next]_P!vars
  <2>1. CASE Inv /\ Next
    BY <2>1, OutsideStep DEF Outside, P!Next, P!vars
  <2>2. CASE UNCHANGED vars
    BY <2>2 DEF vars, P!vars
  <2> QED BY <2>1, <2>2
<1> QED BY InvAlways, <1>1, <1>2, PTL DEF Spec, ImplementsPublication, P!Spec
=============================================================================
