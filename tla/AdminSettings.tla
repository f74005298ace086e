---------------------------- MODULE AdminSettings ----------------------------
(***************************************************************************)
(* The settings page of the admin area: the form with its draft            *)
(* (src/ui/lib/admin/settings, components/admin/settings), the cached tree *)
(* it is filled from and the PATCH it sends, and the session around it:    *)
(* the gate of the admin layout, the login page and the redirect on 401.   *)
(* A request is sent, served and answered in three steps; it may fail      *)
(* before or after the server has served it.                               *)
(***************************************************************************)
EXTENDS Naturals, FiniteSets

CONSTANTS
    Keys,       \* dotted keys of the schema
    JsonKeys,   \* keys edited as JSON text
    ReadOnly,   \* keys whose widget is disabled, and which the server refuses
    Lossy,      \* kinds of requests that fail without an answer
    Good, Bad,  \* values that pass validation, and values that do not
    NoValue,    \* undefined
    MaxWrites   \* bound on what others write

ASSUME AdminSettingsAssumption ==
    /\ JsonKeys \subseteq Keys /\ ReadOnly \subseteq Keys
    /\ Good \cap Bad = {} /\ NoValue \notin Good \cup Bad
    /\ Lossy \subseteq {"me", "tree", "save", "login", "logout"}
    /\ MaxWrites \in Nat

VARIABLES
    server,   \* the settings table
    cookie,   \* whether the browser's session is valid
    page,     \* the page on show, the one being gone to, the rd of /login
    me,       \* the cached answer of GET /api/auth/me
    tree,     \* the cached settings, flattened
    form,     \* draft, JSON fields with text that does not parse, saveError
    edited,   \* history: keys the admin has set since the draft was last filled
    request,  \* what is under way, by kind
    writes    \* how often others have written
vars == <<server, cookie, page, me, tree, form, edited, request, writes>>

Unloaded == [k \in Keys |-> NoValue]

(* ------------------------------- requests ------------------------------- *)

RequestKinds == {"me", "tree", "save", "login", "logout"}
Idle == [state |-> "idle", patch |-> Unloaded, own |-> {}, tree |-> Unloaded]
Sent == [Idle EXCEPT !.state = "sent"]
Is(kind, state) == request[kind].state = state

\* What the page's queries ask for when it is mounted: what has never been
\* answered, and what is older than staleTime.  Leaving cancels the rest.
Mounted(p, m, t, reqs) ==
    {[reqs EXCEPT !["me"] = a, !["tree"] = b] :
        a \in CASE p = "away" -> {Idle} [] m = "loading" -> {Sent}
                [] OTHER -> {Idle, Sent},
        b \in CASE p # "settings" -> {Idle} [] t = Unloaded -> {Sent}
                [] OTHER -> {Idle, Sent}}

(* --------------------------------- form --------------------------------- *)

Blank(t) == [draft |-> t, garbled |-> {}, error |-> FALSE]

\* diffSettings: the keys whose value in the draft is not that of the tree.
DiffSettings(original, current) ==
    [k \in Keys |-> IF current[k] # original[k] THEN current[k] ELSE NoValue]
IsDirty == form.draft # tree
IsValid == \A k \in Keys : form.draft[k] \notin Bad

\* Mutant: the draft stays when a new tree arrives.
Refilled_KeepsDraft(t) == form

\* A tree of the server: the same values keep their identity in the cache, any
\* other refills the draft.  A JSON field takes its new value as text, and
\* keeps a text that does not parse over a value that did not change.
Refilled(t) ==
    IF t = tree THEN form
    ELSE [form EXCEPT !.draft = t,
                      !.garbled = {k \in @ : form.draft[k] = t[k]}]
Arrived(t) ==
    /\ tree' = t
    /\ edited' = IF t = tree THEN edited
                 ELSE {k \in edited : form'.draft[k] # t[k]}

\* Read-only fields are disabled.
SetField(k, v) ==
    /\ page.at = "settings" /\ k \notin ReadOnly
    /\ form' = [form EXCEPT !.draft[k] = v, !.garbled = @ \ {k}]
    /\ edited' = edited \cup {k}
    /\ UNCHANGED <<server, cookie, page, me, tree, request, writes>>

\* FieldJson tells nobody of a text that does not parse.
TypeGarbage(k) ==
    /\ page.at = "settings" /\ k \in JsonKeys \ ReadOnly
    /\ form' = [form EXCEPT !.garbled = @ \cup {k}]
    /\ UNCHANGED <<server, cookie, page, me, tree, edited, request, writes>>

Revert ==
    /\ page.at = "settings" /\ IsDirty /\ Is("save", "idle")
    /\ form' = [form EXCEPT !.draft = tree,
                            !.garbled = {k \in @ : form.draft[k] = tree[k]}]
    /\ edited' = {}
    /\ UNCHANGED <<server, cookie, page, me, tree, request, writes>>

\* "Save all" sends the diff.
Save ==
    /\ page.at = "settings" /\ IsDirty /\ IsValid /\ Is("save", "idle")
    /\ request' = [request EXCEPT !["save"] =
          [Sent EXCEPT !.patch = DiffSettings(tree, form.draft), !.own = edited]]
    /\ form' = [form EXCEPT !.error = FALSE]
    /\ UNCHANGED <<server, cookie, page, me, tree, edited, writes>>

(* ------------------------------ navigation ------------------------------ *)

\* Where the effects of a page send its visitor: the admin layout to /login
\* with rd, the login page to rd.
Bounced(p, m) ==
    CASE p.at = "settings" /\ m = "none" ->
            [p EXCEPT !.going = "login", !.rd = "settings"]
      [] p.at = "login" /\ m = "user" -> [p EXCEPT !.going = p.rd]
      [] OTHER -> p

\* The router has loaded the page; the form starts from the cached tree.
Shows(p) ==
    /\ page' = Bounced([page EXCEPT !.at = p, !.going = "nowhere"], me)
    /\ form' = Blank(IF p = "settings" THEN tree ELSE Unloaded)
    /\ edited' = {}
    /\ request' \in Mounted(p, me, tree, request)
    /\ UNCHANGED <<server, cookie, me, tree, writes>>
Navigate == page.going # "nowhere" /\ Shows(page.going)
FollowLink(p) == page.at # "login" /\ page.at # p /\ Shows(p)

\* A 401 loads /login anew, except on /login: nothing the page held is left.
RedirectToLogin ==
    IF page.at = "login"
    THEN UNCHANGED <<page, me, tree, form, edited>>
    ELSE /\ page' = [at |-> "login", going |-> "nowhere", rd |-> page.at]
         /\ me' = "loading"
         /\ tree' = Unloaded
         /\ form' = Blank(Unloaded)
         /\ edited' = {}
RequestsAfter401(kind) ==
    IF page.at = "login" THEN [request EXCEPT ![kind] = Idle]
    ELSE [k \in RequestKinds |-> IF k = "me" THEN Sent ELSE Idle]

(* ------------------------------- session -------------------------------- *)

\* One of SignIn and SignOut at a time, which is a bound.
SignIn ==
    /\ page.at = "login" /\ Is("login", "idle") /\ Is("logout", "idle")
    /\ request' = [request EXCEPT !["login"] = Sent]
    /\ UNCHANGED <<server, cookie, page, me, tree, form, edited, writes>>

SignOut ==
    /\ page.at = "settings" /\ me = "user"
    /\ Is("login", "idle") /\ Is("logout", "idle")
    /\ request' = [request EXCEPT !["logout"] = Sent]
    /\ UNCHANGED <<server, cookie, page, me, tree, form, edited, writes>>

SessionExpires ==
    /\ cookie
    /\ cookie' = FALSE
    /\ UNCHANGED <<server, page, me, tree, form, edited, request, writes>>

(* -------------------------------- server -------------------------------- *)

Accepted(patch) ==
    \A k \in Keys : patch[k] # NoValue => patch[k] \in Good /\ k \notin ReadOnly
Written(patch) ==
    [k \in Keys |-> IF patch[k] = NoValue THEN server[k] ELSE patch[k]]

\* The gateway serves a request: all of a patch in one transaction, or none.
Serve(kind) ==
    LET r       == request[kind]
        refused == kind = "save" /\ ~Accepted(r.patch)
        Answers(state, t) ==
            request' = [request EXCEPT
                          ![kind] = [Idle EXCEPT !.state = state, !.tree = t]]
    IN  /\ Is(kind, "sent")
        /\ server' = IF kind = "save" /\ cookie /\ ~refused
                     THEN Written(r.patch) ELSE server
        /\ CASE kind = "login" ->
                  \/ cookie' = TRUE /\ Answers("ok", Unloaded)
                  \/ UNCHANGED cookie /\ Answers("failed", Unloaded)
             [] kind = "logout" -> cookie' = FALSE /\ Answers("ok", Unloaded)
             [] OTHER ->
                  /\ UNCHANGED cookie
                  /\ Answers(IF ~cookie THEN "denied"
                             ELSE IF refused THEN "failed" ELSE "ok",
                             IF kind = "me" \/ ~cookie \/ refused
                             THEN Unloaded ELSE server')
        /\ UNCHANGED <<page, me, tree, form, edited, writes>>

\* No answer, whether or not the request was served.
Lose(kind) ==
    /\ kind \in Lossy /\ request[kind].state \in {"sent", "ok"}
    /\ request' = [request EXCEPT ![kind] = [Idle EXCEPT !.state = "failed"]]
    /\ UNCHANGED <<server, cookie, page, me, tree, form, edited, writes>>

\* Another admin, or an activation of a region.
OthersWrite(k, v) ==
    /\ writes < MaxWrites
    /\ server' = [server EXCEPT ![k] = v]
    /\ writes' = writes + 1
    /\ UNCHANGED <<cookie, page, me, tree, form, edited, request>>

(* -------------------------------- answers ------------------------------- *)

Done(kind) == request' = [request EXCEPT ![kind] = Idle]

\* Any failure reads as "nobody is signed in".
MeAnswered ==
    /\ ~Is("me", "idle") /\ ~Is("me", "sent")
    /\ me' = IF Is("me", "ok") THEN "user" ELSE "none"
    /\ page' = Bounced(page, me')
    /\ Done("me")
    /\ UNCHANGED <<server, cookie, tree, form, edited, writes>>

TreeAnswered ==
    /\ Is("tree", "ok")
    /\ form' = Refilled(request["tree"].tree)
    /\ Arrived(request["tree"].tree)
    /\ Done("tree")
    /\ UNCHANGED <<server, cookie, page, me, writes>>

\* A refused or lost GET leaves what there is; it may be asked again.
TreeFailed ==
    /\ Is("tree", "failed")
    /\ \E retry \in {Idle, Sent} : request' = [request EXCEPT !["tree"] = retry]
    /\ UNCHANGED <<server, cookie, page, me, tree, form, edited, writes>>

\* The answer to a PATCH is the new tree, also for a page that was left.
SaveAnswered ==
    /\ Is("save", "ok")
    /\ IF page.at = "settings" THEN form' = Refilled(request["save"].tree)
                               ELSE UNCHANGED form
    /\ Arrived(request["save"].tree)
    /\ Done("save")
    /\ UNCHANGED <<server, cookie, page, me, writes>>

SaveFailed ==
    /\ Is("save", "failed")
    /\ form' = IF page.at = "settings" THEN [form EXCEPT !.error = TRUE] ELSE form
    /\ Done("save")
    /\ UNCHANGED <<server, cookie, page, me, tree, edited, writes>>

Denied(kind) ==
    /\ kind # "me" /\ Is(kind, "denied")
    /\ RedirectToLogin
    /\ request' = RequestsAfter401(kind)
    /\ UNCHANGED <<server, cookie, writes>>

LoginAnswered ==
    /\ ~Is("login", "idle") /\ ~Is("login", "sent")
    /\ IF Is("login", "ok")
       THEN me' = "user" /\ page' = [page EXCEPT !.going = page.rd]
       ELSE UNCHANGED <<me, page>>
    /\ Done("login")
    /\ UNCHANGED <<server, cookie, tree, form, edited, writes>>

\* Signing out asks for the user again, where the page wants to know.
LogoutAnswered ==
    /\ ~Is("logout", "idle") /\ ~Is("logout", "sent")
    /\ IF Is("logout", "ok")
       THEN /\ me' = "none"
            /\ page' = Bounced(page, "none")
            /\ request' = [request EXCEPT !["logout"] = Idle,
                              !["me"] = IF page.at = "away" THEN @ ELSE Sent]
       ELSE UNCHANGED <<me, page>> /\ Done("logout")
    /\ UNCHANGED <<server, cookie, tree, form, edited, writes>>

\* Back online, the queries of the page ask again.
Reconnect ==
    /\ page.at = "settings"
    /\ request' = [request EXCEPT !["tree"] = IF @ = Idle THEN Sent ELSE @,
                                  !["me"] = IF @ = Idle THEN Sent ELSE @]
    /\ UNCHANGED <<server, cookie, page, me, tree, form, edited, writes>>

Init ==
    /\ server \in [Keys -> Good]
    /\ cookie \in BOOLEAN
    /\ page \in {[at |-> p, going |-> "nowhere", rd |-> "away"] :
                    p \in {"settings", "login"}}
    /\ me = "loading"
    /\ tree = Unloaded
    /\ form = Blank(Unloaded)
    /\ edited = {}
    /\ request = [k \in RequestKinds |->
                    IF k = "me" \/ (k = "tree" /\ page.at = "settings")
                    THEN Sent ELSE Idle]
    /\ writes = 0

Next ==
    \/ \E k \in Keys : \/ TypeGarbage(k)
                       \/ \E v \in Good \cup Bad : SetField(k, v)
                       \/ \E v \in Good : OthersWrite(k, v)
    \/ Revert \/ Save \/ Navigate \/ \E p \in {"settings", "away"} : FollowLink(p)
    \/ SignIn \/ SignOut \/ SessionExpires
    \/ \E kind \in RequestKinds : Serve(kind) \/ Lose(kind) \/ Denied(kind)
    \/ MeAnswered \/ TreeAnswered \/ TreeFailed \/ SaveAnswered \/ SaveFailed
    \/ LoginAnswered \/ LogoutAnswered \/ Reconnect

Spec == Init /\ [][Next]_vars

(* ------------------------------ properties ------------------------------ *)

\* A PATCH names no key that the admin has not set since the draft was filled:
\* however old the page is, and whatever arrived meanwhile, saving never
\* undoes what others wrote to other keys (use-settings-form.ts, diff.ts).
SavesOnlyOwnEdits ==
    \A k \in Keys : request["save"].patch[k] # NoValue => k \in request["save"].own
=============================================================================
