-------------------------- MODULE AdminRegions_proofs --------------------------
(* Proofs about AdminRegions: what is pending is under way, an answer closes *)
(* only its own dialog, and the delete dialog opens unarmed.                 *)
EXTENDS AdminRegions, TLAPS

(* ------------------------------- invariant ------------------------------- *)

Observer == [name : Regions \cup {NoRegion}, id : Nat]
Request  == [id : Nat, kind : Kinds, name : Regions, schedule : Schedules,
             answer : {"none", "success", "error"}]
Target   == Regions \cup {NoRegion}

TypeOK ==
    /\ mutation \in [Kinds -> Observer]
    /\ requests \in SUBSET Request
    /\ install \in Target
    /\ delete \in [target : Target, typed : Target]
    /\ clicks \in Nat

\* Every request has an id of its own, among those given out so far.
IdsAreOwn ==
    /\ \A q \in requests : q.id \in 1..clicks
    /\ \A p, q \in requests : p.id = q.id => p = q

\* What a hook follows has not been answered.
FollowedIsUnderWay ==
    \A k \in Kinds : mutation[k] # Idle =>
        \E q \in requests :
            q.kind = k /\ q.id = mutation[k].id /\ q.name = mutation[k].name

\* The hook behind an open dialog follows a request about the dialog's region:
\* opening the dialog for another region has reset it.
DialogIsAboutItsRequest ==
    /\ install # NoRegion /\ mutation["install"] # Idle =>
          mutation["install"].name = install
    /\ delete.target # NoRegion /\ mutation["delete"] # Idle =>
          mutation["delete"].name = delete.target

Inv == TypeOK /\ IdsAreOwn /\ FollowedIsUnderWay /\ DialogIsAboutItsRequest

LEMMA Constants ==
    /\ NoRegion \notin Regions
    /\ Default \in Schedules
    /\ Idle \in Observer
    /\ {"install", "delete"} \subseteq Kinds
BY AdminAssumption DEF Default, Idle, Observer, Kinds

LEMMA InitInv == Init => Inv
BY Constants DEF Init, Inv, TypeOK, IdsAreOwn, FollowedIsUnderWay,
   DialogIsAboutItsRequest, Observer, Target

(* -------------------------------- the steps ------------------------------- *)

\* Starting a mutation, with the dialogs as they are: the hook of an open
\* dialog starts one about the dialog's region only.
LEMMA MutateInv ==
    ASSUME Inv, NEW kind \in Kinds, NEW r \in Regions, NEW s \in Schedules,
           Mutate(kind, r, s), UNCHANGED dialogs,
           kind = "install" => install = r,
           kind = "delete" => delete.target = r
    PROVE  Inv'
<1> DEFINE new == [id |-> clicks + 1, kind |-> kind, name |-> r,
                   schedule |-> s, answer |-> "none"]
           m   == [name |-> r, id |-> clicks + 1]
<1>1. /\ clicks' = clicks + 1
      /\ requests' = requests \cup {new}
      /\ mutation' = [mutation EXCEPT ![kind] = m]
      /\ install' = install /\ delete' = delete
  BY DEF Mutate, dialogs
<1>2. new \in Request /\ m \in Observer /\ clicks \in Nat
  BY DEF Request, Observer, Inv, TypeOK
<1>3. TypeOK'
  BY <1>1, <1>2 DEF Inv, TypeOK
<1>4. IdsAreOwn'
  BY <1>1, <1>2 DEF Inv, TypeOK, IdsAreOwn, Request
<1>5. FollowedIsUnderWay'
  <2> SUFFICES ASSUME NEW k \in Kinds, mutation'[k] # Idle
               PROVE  \E q \in requests' :
                         q.kind = k /\ q.id = mutation'[k].id
                           /\ q.name = mutation'[k].name
    BY DEF FollowedIsUnderWay
  <2>1. CASE k = kind
    <3>1. mutation'[k] = m
      BY <1>1, <2>1 DEF Inv, TypeOK
    <3>2. new \in requests' /\ new.kind = k /\ new.id = m.id /\ new.name = m.name
      BY <1>1, <2>1
    <3> HIDE DEF new, m
    <3> QED BY <3>1, <3>2
  <2>2. CASE k # kind
    <3>1. mutation'[k] = mutation[k]
      BY <1>1, <2>2 DEF Inv, TypeOK
    <3> QED BY <1>1, <3>1 DEF Inv, FollowedIsUnderWay
  <2> QED BY <2>1, <2>2
<1>6. DialogIsAboutItsRequest'
  <2>1. \A k \in Kinds : mutation'[k] = IF k = kind THEN m ELSE mutation[k]
    BY <1>1 DEF Inv, TypeOK
  <2>2. mutation'["install"] # Idle /\ install # NoRegion
          => mutation'["install"].name = install
    BY <2>1, Constants DEF Inv, DialogIsAboutItsRequest
  <2>3. mutation'["delete"] # Idle /\ delete.target # NoRegion
          => mutation'["delete"].name = delete.target
    BY <2>1, Constants DEF Inv, DialogIsAboutItsRequest
  <2> QED BY <1>1, <2>2, <2>3 DEF DialogIsAboutItsRequest
<1> QED BY <1>3, <1>4, <1>5, <1>6 DEF Inv

LEMMA MutationStep ==
    ASSUME Inv,
           \/ ConfirmInstall \/ ConfirmDelete
           \/ \E r \in Regions : \/ ClickUpdate(r) \/ ClickActivate(r)
                                 \/ \E s \in Schedules : ClickSchedule(r, s)
    PROVE  Inv'
<1>1. CASE ConfirmInstall
  BY <1>1, MutateInv, Constants DEF ConfirmInstall, Inv, TypeOK, Target
<1>2. CASE ConfirmDelete
  <2>1. delete.target \in Regions
    BY <1>2 DEF ConfirmDelete, Inv, TypeOK, Target
  <2> QED BY <1>2, <2>1, MutateInv, Constants DEF ConfirmDelete
<1>3. CASE \E r \in Regions : ClickUpdate(r) \/ ClickActivate(r)
  BY <1>3, MutateInv, Constants DEF ClickUpdate, ClickActivate, Kinds
<1>4. CASE \E r \in Regions, s \in Schedules : ClickSchedule(r, s)
  BY <1>4, MutateInv DEF ClickSchedule, Kinds
<1> QED BY <1>1, <1>2, <1>3, <1>4

\* Opening a dialog resets its hook; closing one and typing leave the hooks.
LEMMA DialogStep ==
    ASSUME Inv,
           \/ \E r \in Regions : OpenInstall(r) \/ OpenDelete(r)
           \/ TypeName \/ DismissInstall \/ DismissDelete
    PROVE  Inv'
<1>1. CASE \E r \in Regions : OpenInstall(r)
  BY <1>1, Constants
  DEF OpenInstall, Reset, Inv, TypeOK, IdsAreOwn, FollowedIsUnderWay,
      DialogIsAboutItsRequest, Target
<1>2. CASE \E r \in Regions : OpenDelete(r)
  BY <1>2, Constants
  DEF OpenDelete, Reset, Inv, TypeOK, IdsAreOwn, FollowedIsUnderWay,
      DialogIsAboutItsRequest, Target
<1>3. CASE TypeName \/ DismissInstall \/ DismissDelete
  <2>1. /\ install' \in {install, NoRegion}
        /\ delete' \in [target : Target, typed : Target]
        /\ delete'.target \in {delete.target, NoRegion}
        /\ UNCHANGED <<mutation, requests, clicks>>
    BY <1>3 DEF TypeName, DismissInstall, DismissDelete, Inv, TypeOK, Target
  <2> QED
    BY <2>1 DEF Inv, TypeOK, IdsAreOwn, FollowedIsUnderWay,
       DialogIsAboutItsRequest, Target
<1> QED BY <1>1, <1>2, <1>3

\* The gateway's answer to a request changes neither its id, kind nor name.
LEMMA ServeStep ==
    ASSUME Inv, NEW q \in requests, Serve(q)
    PROVE  Inv'
<1> PICK answer \in {"success", "error"} :
      requests' = (requests \ {q}) \cup {[q EXCEPT !.answer = answer]}
  BY DEF Serve
<1> DEFINE p == [q EXCEPT !.answer = answer]
<1>1. p \in Request /\ p.id = q.id /\ p.kind = q.kind /\ p.name = q.name
  BY DEF Inv, TypeOK, Request
<1>2. UNCHANGED <<mutation, install, delete, clicks>>
  BY DEF Serve, dialogs
<1> HIDE DEF p
<1>3. TypeOK'
  BY <1>1, <1>2 DEF Inv, TypeOK, p
<1>4. IdsAreOwn'
  BY <1>1, <1>2 DEF Inv, IdsAreOwn, p
<1>5. FollowedIsUnderWay'
  <2> SUFFICES ASSUME NEW k \in Kinds, mutation[k] # Idle
               PROVE  \E z \in requests' :
                         z.kind = k /\ z.id = mutation[k].id
                           /\ z.name = mutation[k].name
    BY <1>2 DEF FollowedIsUnderWay
  <2> PICK z \in requests :
        z.kind = k /\ z.id = mutation[k].id /\ z.name = mutation[k].name
    BY DEF Inv, FollowedIsUnderWay
  <2>1. CASE z = q
    BY <1>1, <2>1 DEF p
  <2>2. CASE z # q
    BY <2>2
  <2> QED BY <2>1, <2>2
<1>6. DialogIsAboutItsRequest'
  BY <1>2 DEF Inv, DialogIsAboutItsRequest
<1> QED BY <1>3, <1>4, <1>5, <1>6 DEF Inv

\* The answer goes to the hook that follows the request, if one still does.
LEMMA AnswerStep ==
    ASSUME Inv, NEW q \in requests, Answer(q)
    PROVE  Inv'
<1>1. /\ requests' = requests \ {q}
      /\ mutation' = [mutation EXCEPT ![q.kind] = Settled(@, q)]
      /\ install' = InstallAfter(q) /\ delete' = DeleteAfter(q)
      /\ clicks' = clicks
  BY DEF Answer
<1>2. q.kind \in Kinds
  BY DEF Inv, TypeOK, Request
<1>3. \A k \in Kinds : mutation'[k] \in {mutation[k], Idle}
  BY <1>1, <1>2 DEF Inv, TypeOK, Settled
<1>4. mutation' \in [Kinds -> Observer]
  BY <1>1, <1>2, Constants DEF Inv, TypeOK, Settled
<1>5. /\ install' \in {install, NoRegion}
      /\ delete' \in [target : Target, typed : Target]
      /\ delete'.target \in {delete.target, NoRegion}
  BY <1>1 DEF InstallAfter, DeleteAfter, Inv, TypeOK, Target
<1>6. TypeOK'
  BY <1>1, <1>4, <1>5 DEF Inv, TypeOK, Target
<1>7. IdsAreOwn'
  BY <1>1 DEF Inv, IdsAreOwn
<1>8. FollowedIsUnderWay'
  <2> SUFFICES ASSUME NEW k \in Kinds, mutation'[k] # Idle
               PROVE  \E z \in requests' :
                         z.kind = k /\ z.id = mutation'[k].id
                           /\ z.name = mutation'[k].name
    BY DEF FollowedIsUnderWay
  <2>1. mutation'[k] = mutation[k]
    BY <1>3
  <2> PICK z \in requests :
        z.kind = k /\ z.id = mutation[k].id /\ z.name = mutation[k].name
    BY <2>1 DEF Inv, FollowedIsUnderWay
  <2>2. z # q
    <3> SUFFICES ASSUME z = q PROVE FALSE
      OBVIOUS
    <3>1. mutation'[k] = Idle
      BY <1>1, <1>2 DEF Inv, TypeOK, Settled
    <3> QED BY <3>1
  <2> QED BY <1>1, <2>1, <2>2
<1>9. DialogIsAboutItsRequest'
  BY <1>3, <1>5, Constants DEF Inv, DialogIsAboutItsRequest
<1> QED BY <1>6, <1>7, <1>8, <1>9 DEF Inv

pageVars == <<mutation, requests, install, delete, clicks>>

\* The steps, by what they do to the requests and dialogs.
LEMMA StepKinds ==
    ASSUME [Next]_vars
    PROVE  \/ ConfirmInstall \/ ConfirmDelete
           \/ \E r \in Regions : \/ ClickUpdate(r) \/ ClickActivate(r)
                                 \/ \E s \in Schedules : ClickSchedule(r, s)
           \/ \E r \in Regions : OpenInstall(r) \/ OpenDelete(r)
           \/ TypeName \/ DismissInstall \/ DismissDelete
           \/ \E q \in requests : Serve(q)
           \/ \E q \in requests : Answer(q)
           \/ UNCHANGED pageVars
<1>1. CASE User
  BY <1>1 DEF User
<1>2. CASE \E q \in requests : Serve(q) \/ Answer(q)
  BY <1>2
<1>3. CASE \/ \E r \in Regions : Work(r)
           \/ Poll \/ ListRead \/ ListAnswered \/ SettingsAnswered
           \/ StreamEvent \/ SocketCloses
  <2>1. UNCHANGED pageVars
    BY <1>3 DEF pageVars, Work, Poll, ListRead, ListAnswered, SettingsAnswered,
       StreamEvent, SocketCloses, dialogs
  <2> QED BY <2>1
<1>4. CASE UNCHANGED vars
  BY <1>4 DEF vars, pageVars
<1> QED BY <1>1, <1>2, <1>3, <1>4 DEF Next

LEMMA NextInv == Inv /\ [Next]_vars => Inv'
<1> SUFFICES ASSUME Inv, [Next]_vars PROVE Inv'
  OBVIOUS
<1>1. CASE UNCHANGED pageVars
  BY <1>1 DEF pageVars, Inv, TypeOK, IdsAreOwn, FollowedIsUnderWay,
     DialogIsAboutItsRequest
<1>2. CASE \E q \in requests : Serve(q)
  BY <1>2, ServeStep
<1>3. CASE \E q \in requests : Answer(q)
  BY <1>3, AnswerStep
<1> QED BY <1>1, <1>2, <1>3, StepKinds, MutationStep, DialogStep

(* --------------------------- the action properties ------------------------ *)

AnswerCloses ==
    \A q \in requests \ requests' :
        /\ install' # install => q.kind = "install" /\ q.name = install
        /\ delete' # delete => q.kind = "delete" /\ q.name = delete.target

\* The request that a hook follows is the only one with that id.
LEMMA FollowedName ==
    ASSUME Inv, NEW q \in requests, Followed(q)
    PROVE  mutation[q.kind] # Idle /\ q.name = mutation[q.kind].name
<1>1. q.kind \in Kinds /\ q.id \in 1..clicks /\ mutation[q.kind].id = q.id
  BY DEF Inv, TypeOK, Request, IdsAreOwn, Followed
<1>2. mutation[q.kind] # Idle
  BY <1>1 DEF Idle, Inv, TypeOK
<1> QED BY <1>1, <1>2 DEF Inv, FollowedIsUnderWay, IdsAreOwn

LEMMA AnswersStep == Inv /\ [Next]_vars => AnswerCloses
<1> SUFFICES ASSUME Inv, [Next]_vars, NEW q \in requests \ requests'
             PROVE  /\ install' # install => q.kind = "install" /\ q.name = install
                    /\ delete' # delete => q.kind = "delete" /\ q.name = delete.target
  BY DEF AnswerCloses
<1>1. CASE Answer(q)
  <2>1. install' # install => q.kind = "install" /\ q.name = install
    <3> SUFFICES ASSUME install' # install
                 PROVE  q.kind = "install" /\ q.name = install
      OBVIOUS
    <3>1. q.kind = "install" /\ Followed(q) /\ install # NoRegion
      BY <1>1 DEF Answer, InstallAfter
    <3> QED BY <3>1, FollowedName DEF Inv, DialogIsAboutItsRequest
  <2>2. delete' # delete => q.kind = "delete" /\ q.name = delete.target
    <3> SUFFICES ASSUME delete' # delete
                 PROVE  q.kind = "delete" /\ q.name = delete.target
      OBVIOUS
    <3>1. q.kind = "delete" /\ Followed(q)
          /\ delete' = [delete EXCEPT !.target = NoRegion]
      BY <1>1 DEF Answer, DeleteAfter
    <3>2. delete.target # NoRegion
      BY <3>1 DEF Inv, TypeOK
    <3> QED BY <3>1, <3>2, FollowedName DEF Inv, DialogIsAboutItsRequest
  <2> QED BY <2>1, <2>2
<1>2. CASE UNCHANGED dialogs
  BY <1>2 DEF dialogs
<1>3. CASE UNCHANGED requests
  BY <1>3
<1>4. Answer(q) \/ UNCHANGED dialogs \/ UNCHANGED requests
  <2>1. CASE \/ ConfirmInstall \/ ConfirmDelete
             \/ \E r \in Regions : \/ ClickUpdate(r) \/ ClickActivate(r)
                                   \/ \E s \in Schedules : ClickSchedule(r, s)
    BY <2>1 DEF ConfirmInstall, ConfirmDelete, ClickUpdate, ClickActivate,
       ClickSchedule
  <2>2. CASE \/ \E r \in Regions : OpenInstall(r) \/ OpenDelete(r)
             \/ TypeName \/ DismissInstall \/ DismissDelete
    BY <2>2 DEF OpenInstall, OpenDelete, TypeName, DismissInstall, DismissDelete
  <2>3. CASE \E p \in requests : Serve(p)
    BY <2>3 DEF Serve
  <2>4. CASE \E p \in requests : Answer(p)
    BY <2>4 DEF Answer
  <2>5. CASE UNCHANGED pageVars
    BY <2>5 DEF pageVars
  <2> QED BY <2>1, <2>2, <2>3, <2>4, <2>5, StepKinds
<1> QED BY <1>1, <1>2, <1>3, <1>4

OpenedUnarmed == delete'.target \notin {delete.target, NoRegion} => ~Armed'

LEMMA OpensStep == Inv /\ [Next]_vars => OpenedUnarmed
<1> SUFFICES ASSUME Inv, [Next]_vars, delete'.target \notin {delete.target, NoRegion}
             PROVE  ~Armed'
  BY DEF OpenedUnarmed
<1>1. CASE \E r \in Regions : OpenDelete(r)
  BY <1>1, Constants DEF OpenDelete, Armed
<1>2. CASE \/ ConfirmInstall \/ ConfirmDelete
           \/ \E r \in Regions : \/ ClickUpdate(r) \/ ClickActivate(r)
                                 \/ \E s \in Schedules : ClickSchedule(r, s)
  BY <1>2 DEF ConfirmInstall, ConfirmDelete, ClickUpdate, ClickActivate,
     ClickSchedule, dialogs
<1>3. CASE \/ \E r \in Regions : OpenInstall(r)
           \/ TypeName \/ DismissInstall \/ DismissDelete
  BY <1>3 DEF OpenInstall, TypeName, DismissInstall, DismissDelete, Inv, TypeOK
<1>4. CASE \E q \in requests : Serve(q)
  BY <1>4 DEF Serve, dialogs
<1>5. CASE \E q \in requests : Answer(q)
  BY <1>5 DEF Answer, DeleteAfter, Inv, TypeOK
<1>6. CASE UNCHANGED pageVars
  BY <1>6 DEF pageVars
<1> QED BY <1>1, <1>2, <1>3, <1>4, <1>5, <1>6, StepKinds

(* -------------------------------- theorems -------------------------------- *)

\* Nothing is shown as pending that has been answered: not after a lost answer,
\* a request overtaken by another of its hook, or a dialog opened again.
THEOREM PendingUnderWay == Spec => []PendingIsUnderWay
<1>1. Inv => PendingIsUnderWay
  BY DEF Inv, FollowedIsUnderWay, PendingIsUnderWay, IsPending
<1> QED BY InitInv, NextInv, <1>1, PTL DEF Spec

\* An answer closes the dialog of the region it is about, or none.
THEOREM AnswersCloseTheirs == Spec => AnswersCloseTheirDialog
<1>1. Inv /\ [Next]_vars => [AnswerCloses]_vars
  BY AnswersStep
<1> QED
  BY InitInv, NextInv, <1>1, PTL DEF Spec, AnswersCloseTheirDialog, AnswerCloses

\* The delete dialog never opens with its button armed.
THEOREM OpensDisarmed == Spec => OpensUnarmed
<1>1. Inv /\ [Next]_vars => [OpenedUnarmed]_vars
  BY OpensStep
<1> QED BY InitInv, NextInv, <1>1, PTL DEF Spec, OpensUnarmed, OpenedUnarmed
=============================================================================
