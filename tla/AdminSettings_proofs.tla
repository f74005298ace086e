------------------------- MODULE AdminSettings_proofs -------------------------
(* Proofs about AdminSettings: a PATCH names only what the admin has set.   *)
EXTENDS AdminSettings, TLAPS

(* ------------------------------- invariant ------------------------------- *)

Value    == Good \cup Bad \cup {NoValue}
Pages    == {"settings", "login", "away"}
States   == {"idle", "sent", "ok", "failed", "denied"}
Form     == [draft : [Keys -> Value], garbled : SUBSET Keys, error : BOOLEAN]
Request  == [state : States, patch : [Keys -> Value], own : SUBSET Keys,
             tree : [Keys -> Value]]
Page     == [at : Pages, going : Pages \cup {"nowhere"}, rd : Pages]

TypeOK ==
    /\ server \in [Keys -> Good]
    /\ page \in Page
    /\ tree \in [Keys -> Value]
    /\ form \in Form
    /\ edited \in SUBSET Keys
    /\ request \in [RequestKinds -> Request]

\* What the draft on show says other than the tree, the admin has said since
\* the draft was filled: the fact of the page that Save relies on.
DraftIsOwn ==
    page.at = "settings" =>
        \A k \in Keys : form.draft[k] # tree[k] => k \in edited

Inv == TypeOK /\ DraftIsOwn /\ SavesOnlyOwnEdits

(* ---------------------------- helper operators --------------------------- *)

LEMMA IdleType == Idle \in Request /\ Sent \in Request
BY DEF Idle, Sent, Request, Unloaded, Value, States

LEMMA UnloadedType == Unloaded \in [Keys -> Value]
BY DEF Unloaded, Value

\* Mounting a page touches the queries only, never a PATCH under way.
LEMMA MountedType ==
    ASSUME NEW p, NEW m, NEW t,
           NEW r \in [RequestKinds -> Request],
           NEW q \in Mounted(p, m, t, r)
    PROVE  q \in [RequestKinds -> Request] /\ q["save"] = r["save"]
<1> DEFINE A == CASE p = "away" -> {Idle} [] m = "loading" -> {Sent}
                  [] OTHER -> {Idle, Sent}
           B == CASE p # "settings" -> {Idle} [] t = Unloaded -> {Sent}
                  [] OTHER -> {Idle, Sent}
<1>1. A \subseteq {Idle, Sent} /\ B \subseteq {Idle, Sent}
  OBVIOUS
<1>2. PICK a \in A, b \in B : q = [r EXCEPT !["me"] = a, !["tree"] = b]
  BY DEF Mounted
<1>3. a \in Request /\ b \in Request
  BY <1>1, IdleType
<1> HIDE DEF A, B
<1> QED BY <1>2, <1>3 DEF RequestKinds

\* A page stays on show while it is being left.
LEMMA BouncedType ==
    ASSUME NEW p \in Page, NEW m
    PROVE  Bounced(p, m) \in Page /\ Bounced(p, m).at = p.at
BY DEF Bounced, Page, Pages

\* A tree that arrives leaves a draft that is the tree's, or the one there was.
LEMMA RefilledType ==
    ASSUME NEW t \in [Keys -> Value], TypeOK
    PROVE  /\ Refilled(t) \in Form
           /\ Refilled(t).draft = IF t = tree THEN form.draft ELSE t
BY DEF Refilled, Form, TypeOK

\* A patch is what the draft says other than the tree.
LEMMA DiffType ==
    ASSUME TypeOK
    PROVE  /\ DiffSettings(tree, form.draft) \in [Keys -> Value]
           /\ \A k \in Keys : DiffSettings(tree, form.draft)[k] # NoValue
                                => form.draft[k] # tree[k]
BY DEF DiffSettings, TypeOK, Form, Value

\* What the server stores is typed when it accepts the patch.
LEMMA WrittenType ==
    ASSUME NEW patch \in [Keys -> Value], Accepted(patch), TypeOK
    PROVE  Written(patch) \in [Keys -> Good]
BY DEF Accepted, Written, TypeOK

(* ------------------------------ initial state ----------------------------- *)

LEMMA InitInv == Init => Inv
<1> SUFFICES ASSUME Init PROVE Inv
  OBVIOUS
<1>1. TypeOK
  BY IdleType, UnloadedType DEF Init, TypeOK, Page, Pages, Blank, Form
<1>2. DraftIsOwn
  BY DEF Init, DraftIsOwn, Blank
<1>3. SavesOnlyOwnEdits
  BY DEF Init, SavesOnlyOwnEdits, RequestKinds, Idle, Sent, Unloaded
<1> QED BY <1>1, <1>2, <1>3 DEF Inv

(* -------------------------------- the steps ------------------------------- *)

\* A step that neither moves the page nor fills the draft keeps what the draft
\* says; one that leaves the PATCH alone keeps what it names.
LEMMA SamePage ==
    ASSUME DraftIsOwn, page'.at = page.at, UNCHANGED <<tree, form, edited>>
    PROVE  DraftIsOwn'
BY DEF DraftIsOwn

LEMMA SamePatch ==
    ASSUME SavesOnlyOwnEdits, UNCHANGED request["save"]
    PROVE  SavesOnlyOwnEdits'
BY DEF SavesOnlyOwnEdits

LEMMA NoPatch ==
    ASSUME request'["save"].patch = Unloaded
    PROVE  SavesOnlyOwnEdits'
BY DEF SavesOnlyOwnEdits, Unloaded

LEMMA EditStep ==
    ASSUME Inv,
           \/ \E k \in Keys, v \in Good \cup Bad : SetField(k, v)
           \/ \E k \in Keys : TypeGarbage(k)
           \/ Revert
    PROVE  Inv'
<1> USE DEF Inv
<1>1. CASE \E k \in Keys, v \in Good \cup Bad : SetField(k, v)
  <2> PICK k \in Keys, v \in Good \cup Bad : SetField(k, v)
    BY <1>1
  <2>1. TypeOK'
    BY DEF SetField, TypeOK, Form, Value
  <2>2. \A j \in Keys : form'.draft[j] = IF j = k THEN v ELSE form.draft[j]
    BY DEF SetField, TypeOK, Form
  <2>3. DraftIsOwn'
    BY <2>2 DEF SetField, DraftIsOwn
  <2> QED BY <2>1, <2>3, SamePatch DEF SetField
<1>2. CASE \E k \in Keys : TypeGarbage(k)
  <2> PICK k \in Keys : TypeGarbage(k)
    BY <1>2
  <2>1. TypeOK'
    BY DEF TypeGarbage, TypeOK, Form
  <2>2. form'.draft = form.draft
    BY DEF TypeGarbage, TypeOK, Form
  <2>3. DraftIsOwn'
    BY <2>2 DEF TypeGarbage, DraftIsOwn
  <2> QED BY <2>1, <2>3, SamePatch DEF TypeGarbage
<1>3. CASE Revert
  <2>1. TypeOK'
    BY <1>3 DEF Revert, TypeOK, Form
  <2>2. form'.draft = tree
    BY <1>3 DEF Revert, TypeOK, Form
  <2>3. DraftIsOwn'
    BY <1>3, <2>2 DEF Revert, DraftIsOwn
  <2> QED BY <1>3, <2>1, <2>3, SamePatch DEF Revert
<1> QED BY <1>1, <1>2, <1>3

LEMMA SaveStep == ASSUME Inv, Save PROVE Inv'
<1> USE DEF Inv
<1> DEFINE p == DiffSettings(tree, form.draft)
           s == [Sent EXCEPT !.patch = p, !.own = edited]
<1>1. s \in Request /\ s.patch = p /\ s.own = edited
  BY DiffType, IdleType DEF TypeOK, Request, Sent, Idle
<1>2. request' = [request EXCEPT !["save"] = s]
  BY DEF Save
<1>3. TypeOK'
  <2>1. form' \in Form
    BY DEF Save, TypeOK, Form
  <2>2. request' \in [RequestKinds -> Request]
    BY <1>1, <1>2 DEF TypeOK
  <2> QED BY <2>1, <2>2 DEF Save, TypeOK
<1>4. DraftIsOwn'
  <2>1. form'.draft = form.draft
    BY DEF Save, TypeOK, Form
  <2> QED BY <2>1 DEF Save, DraftIsOwn
<1>5. SavesOnlyOwnEdits'
  <2>1. request'["save"] = s
    BY <1>2 DEF TypeOK, RequestKinds
  <2>2. ASSUME NEW k \in Keys, p[k] # NoValue PROVE k \in edited
    BY <2>2, DiffType DEF Save, DraftIsOwn
  <2> HIDE DEF s, p
  <2> QED BY <1>1, <2>1, <2>2 DEF SavesOnlyOwnEdits
<1> QED BY <1>3, <1>4, <1>5

LEMMA ShowsStep ==
    ASSUME Inv, NEW p \in Pages, Shows(p)
    PROVE  Inv'
<1> USE DEF Inv
<1>1. page' \in Page /\ page'.at = p
  <2> DEFINE q == [page EXCEPT !.at = p, !.going = "nowhere"]
  <2>1. q \in Page /\ q.at = p
    BY DEF TypeOK, Page
  <2>2. page' = Bounced(q, me)
    BY DEF Shows
  <2> HIDE DEF q
  <2> QED BY <2>1, <2>2, BouncedType
<1>2. request' \in [RequestKinds -> Request] /\ request'["save"] = request["save"]
  BY MountedType DEF Shows, TypeOK
<1>3. form' \in Form /\ form'.draft = IF p = "settings" THEN tree ELSE Unloaded
  BY UnloadedType DEF Shows, Blank, Form, TypeOK
<1>4. TypeOK'
  BY <1>1, <1>2, <1>3 DEF Shows, TypeOK
<1>5. DraftIsOwn'
  BY <1>1, <1>3 DEF Shows, DraftIsOwn
<1> QED BY <1>2, <1>4, <1>5, SamePatch

LEMMA SessionStep ==
    ASSUME Inv, SignIn \/ SignOut \/ SessionExpires \/ Reconnect
    PROVE  Inv'
<1> USE DEF Inv
<1>1. request' \in [RequestKinds -> Request] /\ request'["save"] = request["save"]
  BY IdleType DEF SignIn, SignOut, SessionExpires, Reconnect, TypeOK, RequestKinds
<1>2. UNCHANGED <<server, page, tree, form, edited>>
  BY DEF SignIn, SignOut, SessionExpires, Reconnect
<1> QED BY <1>1, <1>2, SamePage, SamePatch DEF TypeOK

LEMMA ServerStep ==
    ASSUME Inv,
           \/ \E kind \in RequestKinds : Serve(kind) \/ Lose(kind)
           \/ \E k \in Keys, v \in Good : OthersWrite(k, v)
    PROVE  Inv'
<1> USE DEF Inv
<1>1. CASE \E kind \in RequestKinds : Serve(kind)
  <2> PICK kind \in RequestKinds : Serve(kind)
    BY <1>1
  <2> DEFINE r == request[kind]
  <2>1. r \in Request
    BY DEF TypeOK
  <2>2. server' \in [Keys -> Good]
    BY <2>1, WrittenType DEF Serve, TypeOK, Request
  <2>3. PICK state \in States, t \in [Keys -> Value] :
          request' = [request EXCEPT
                        ![kind] = [Idle EXCEPT !.state = state, !.tree = t]]
    <3>1. server' \in [Keys -> Value]
      BY <2>2 DEF Value
    <3> QED BY <3>1, UnloadedType DEF Serve, States
  <2>4. [Idle EXCEPT !.state = state, !.tree = t] \in Request
    BY IdleType DEF Request
  <2>5. TypeOK'
    BY <2>2, <2>3, <2>4 DEF Serve, TypeOK
  <2>6. SavesOnlyOwnEdits'
    <3>1. CASE kind = "save"
      BY <2>3, <3>1, NoPatch DEF TypeOK, Idle
    <3>2. CASE kind # "save"
      BY <2>3, <3>2, SamePatch DEF TypeOK, RequestKinds
    <3> QED BY <3>1, <3>2
  <2> QED BY <2>5, <2>6, SamePage DEF Serve
<1>2. CASE \E kind \in RequestKinds : Lose(kind)
  <2> PICK kind \in RequestKinds : Lose(kind)
    BY <1>2
  <2>1. [Idle EXCEPT !.state = "failed"] \in Request
    BY IdleType DEF Request, States
  <2>2. TypeOK'
    BY <2>1 DEF Lose, TypeOK
  <2>3. SavesOnlyOwnEdits'
    <3>1. CASE kind = "save"
      BY <3>1, NoPatch DEF Lose, TypeOK, Idle
    <3>2. CASE kind # "save"
      BY <3>2, SamePatch DEF Lose, TypeOK, RequestKinds
    <3> QED BY <3>1, <3>2
  <2> QED BY <2>2, <2>3, SamePage DEF Lose
<1>3. CASE \E k \in Keys, v \in Good : OthersWrite(k, v)
  BY <1>3, SamePage, SamePatch DEF OthersWrite, TypeOK
<1> QED BY <1>1, <1>2, <1>3

\* A tree that arrives for the page on show becomes its draft.
LEMMA TreeStep ==
    ASSUME Inv, TreeAnswered \/ SaveAnswered
    PROVE  Inv'
<1> USE DEF Inv
<1> PICK kind \in {"tree", "save"} :
      /\ \/ form' = Refilled(request[kind].tree)
         \/ UNCHANGED form /\ page.at # "settings"
      /\ Arrived(request[kind].tree)
      /\ Done(kind)
      /\ UNCHANGED <<server, page>>
  BY DEF TreeAnswered, SaveAnswered
<1> DEFINE t == request[kind].tree
<1>1. t \in [Keys -> Value]
  BY DEF TypeOK, Request, RequestKinds
<1>2. tree' = t /\ edited' \in SUBSET Keys
  BY DEF Arrived, TypeOK
<1>3. form' \in Form
  BY <1>1, RefilledType DEF TypeOK
<1>4. request' \in [RequestKinds -> Request]
  BY IdleType DEF Done, TypeOK
<1>5. TypeOK'
  BY <1>1, <1>2, <1>3, <1>4 DEF TypeOK
<1>6. DraftIsOwn'
  <2>1. SUFFICES ASSUME page.at = "settings",
                        NEW k \in Keys, form'.draft[k] # tree'[k]
                 PROVE  k \in edited'
    BY DEF DraftIsOwn
  <2>2. form'.draft = IF t = tree THEN form.draft ELSE t
    BY <1>1, <2>1, RefilledType
  <2>3. t = tree
    BY <1>2, <2>1, <2>2
  <2> QED BY <1>2, <2>1, <2>2, <2>3 DEF Arrived, DraftIsOwn
<1>7. SavesOnlyOwnEdits'
  <2>1. CASE kind = "save"
    BY <2>1, NoPatch DEF Done, TypeOK, RequestKinds, Idle
  <2>2. CASE kind = "tree"
    BY <2>2, SamePatch DEF Done, TypeOK, RequestKinds
  <2> QED BY <2>1, <2>2
<1> QED BY <1>5, <1>6, <1>7

LEMMA FailureStep ==
    ASSUME Inv, TreeFailed \/ SaveFailed \/ \E kind \in RequestKinds : Denied(kind)
    PROVE  Inv'
<1> USE DEF Inv
<1>1. CASE TreeFailed
  <2>1. request' \in [RequestKinds -> Request] /\ request'["save"] = request["save"]
    BY <1>1, IdleType DEF TreeFailed, TypeOK, RequestKinds
  <2> QED BY <1>1, <2>1, SamePage, SamePatch DEF TreeFailed, TypeOK
<1>2. CASE SaveFailed
  <2>1. form' \in Form /\ form'.draft = form.draft
    BY <1>2 DEF SaveFailed, TypeOK, Form
  <2>2. request' \in [RequestKinds -> Request] /\ request'["save"] = Idle
    BY <1>2, IdleType DEF SaveFailed, Done, TypeOK, RequestKinds
  <2>3. TypeOK'
    BY <1>2, <2>1, <2>2 DEF SaveFailed, TypeOK
  <2>4. DraftIsOwn'
    BY <1>2, <2>1 DEF SaveFailed, DraftIsOwn
  <2> QED BY <2>2, <2>3, <2>4, NoPatch DEF Idle
<1>3. CASE \E kind \in RequestKinds : Denied(kind)
  <2> PICK kind \in RequestKinds : Denied(kind)
    BY <1>3
  <2>1. request' \in [RequestKinds -> Request]
    BY IdleType DEF Denied, RequestsAfter401, TypeOK
  <2>2. /\ page' \in Page
        /\ tree' \in [Keys -> Value]
        /\ form' \in Form
        /\ edited' \in SUBSET Keys
    <3>1. CASE page.at = "login"
      BY <3>1 DEF Denied, RedirectToLogin, TypeOK
    <3>2. CASE page.at # "login"
      <4>1. page.at \in Pages
        BY DEF TypeOK, Page
      <4>2. [at |-> "login", going |-> "nowhere", rd |-> page.at] \in Page
        BY <4>1 DEF Page, Pages
      <4>3. Blank(Unloaded) \in Form
        BY UnloadedType DEF Blank, Form
      <4> QED
        BY <3>2, <4>2, <4>3, UnloadedType DEF Denied, RedirectToLogin
    <3> QED BY <3>1, <3>2
  <2>3. TypeOK'
    BY <2>1, <2>2 DEF Denied, TypeOK
  <2>4. DraftIsOwn'
    BY DEF Denied, RedirectToLogin, DraftIsOwn
  <2>5. request'["save"] \in {request["save"], Idle}
    BY DEF Denied, RequestsAfter401, TypeOK, RequestKinds
  <2> QED BY <2>3, <2>4, <2>5, SamePatch, NoPatch DEF Idle
<1> QED BY <1>1, <1>2, <1>3

LEMMA UserStep ==
    ASSUME Inv, MeAnswered \/ LoginAnswered \/ LogoutAnswered
    PROVE  Inv'
<1> USE DEF Inv
<1>1. page' \in Page /\ page'.at = page.at
  BY BouncedType DEF MeAnswered, LoginAnswered, LogoutAnswered, TypeOK, Page
<1>2. request' \in [RequestKinds -> Request] /\ request'["save"] = request["save"]
  BY IdleType DEF MeAnswered, LoginAnswered, LogoutAnswered, Done, TypeOK, RequestKinds
<1>3. UNCHANGED <<server, tree, form, edited>>
  BY DEF MeAnswered, LoginAnswered, LogoutAnswered
<1> QED BY <1>1, <1>2, <1>3, SamePage, SamePatch DEF TypeOK

LEMMA NextInv == Inv /\ [Next]_vars => Inv'
<1> SUFFICES ASSUME Inv, [Next]_vars PROVE Inv'
  OBVIOUS
<1>1. CASE UNCHANGED vars
  BY <1>1 DEF vars, Inv, TypeOK, DraftIsOwn, SavesOnlyOwnEdits
<1>2. CASE Navigate
  <2>1. page.going \in Pages
    BY <1>2 DEF Navigate, Inv, TypeOK, Page
  <2> QED BY <1>2, <2>1, ShowsStep DEF Navigate
<1>3. CASE \E p \in {"settings", "away"} : FollowLink(p)
  BY <1>3, ShowsStep DEF FollowLink, Pages
<1> QED
  BY <1>1, <1>2, <1>3, EditStep, SaveStep, SessionStep, ServerStep, TreeStep,
     FailureStep, UserStep DEF Next

(* -------------------------------- theorems -------------------------------- *)

\* However late the answers, whatever others write and wherever the session
\* ends: a PATCH names no key the admin has not set since the form was filled.
THEOREM SavesOnlyOwn == Spec => []SavesOnlyOwnEdits
<1>1. Inv => SavesOnlyOwnEdits
  BY DEF Inv
<1> QED BY InitInv, NextInv, <1>1, PTL DEF Spec

\* While the settings page is on show, a field that differs from the cached
\* tree is one the admin has set: no refill of the draft loses track of that.
THEOREM DraftDiffersOnlyByEdits == Spec => []DraftIsOwn
<1>1. Inv => DraftIsOwn
  BY DEF Inv
<1> QED BY InitInv, NextInv, <1>1, PTL DEF Spec
=============================================================================
