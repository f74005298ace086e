----------------------------- MODULE ShareLinks -----------------------------
(***************************************************************************)
(* Views as links: the address bar that follows the map                    *)
(* (src/ui/lib/map/use-url-viewport.ts), the page that a link restores     *)
(* (src/ui/lib/url-state), the place card's share dialog with its link,    *)
(* short link and embed snippet (src/ui/components/share), and the embed   *)
(* page.  Numbers are out of scope: a viewport is one of a few.            *)
(***************************************************************************)
EXTENDS Naturals, FiniteSets

CONSTANTS
    Views,     \* viewports
    Home,      \* DEFAULT_VIEWPORT, one of them
    Regions,   \* canonical region keys
    Places,    \* POI ids
    Tabs,      \* tabs of the rail a link can name, "search" aside
    None,      \* no such parameter, no feature, no dialog text: none of these
    MaxShort   \* bound on the short links asked for at a time

VARIABLES
    page,       \* the page shown: its kind, camera and stores
    url,        \* window.location
    last,       \* lastHash and lastSearch of useUrlViewport
    dialog,     \* the share dialog of the place card
    pending,    \* POST /api/links under way: the URLs to be shortened
    clipboard   \* what was copied: a link, or the source of an embed
vars == <<page, url, last, dialog, pending, clipboard>>

(* --------------------------------- codec -------------------------------- *)

\* A link: the hash with a viewport, the flat lat/lon/zoom triple, the region,
\* the tab and the place ("poi" and "place" are read alike).
BareUrl == [path |-> "/", hash |-> None, flat |-> None, r |-> None,
            tab |-> None, place |-> None]

\* encodeState: the default tab is left out.
EncodeState(s) ==
    [BareUrl EXCEPT !.hash = s.viewport, !.r = s.region,
                    !.tab = IF s.tab = "search" THEN None ELSE s.tab,
                    !.place = s.poi]

\* decodeURL: the hash wins over the flat triple.
FlatViewport(u) == u.flat
DecodeViewport(u) == IF u.hash # None THEN u.hash ELSE FlatViewport(u)

\* buildShareLink: a point, or a POI with its id; nothing else.
BuildShareLink(f) == [BareUrl EXCEPT !.flat = f.at, !.place = f.poi]

\* The embed source of a link, and what the embed page makes of it: it reads
\* the flat triple and "region", which no link of the app carries.
EmbedOf(u) == [u EXCEPT !.path = "/embed"]
ParseEmbedParams(u) ==
    [center |-> IF u.flat # None THEN u.flat ELSE Home, region |-> None]

(* --------------------------------- page --------------------------------- *)

NoDialog == [open |-> FALSE, long |-> None, short |-> None, embed |-> None,
             tab |-> "link"]

\* useRestoreOnMount fills the stores; MapCanvas starts at the hash.
ApplyDecoded(u) ==
    [kind     |-> "map",
     viewport |-> IF DecodeViewport(u) # None THEN DecodeViewport(u) ELSE Home,
     camera   |-> IF u.hash # None THEN u.hash ELSE Home,
     region   |-> u.r,
     tab      |-> IF u.tab = None THEN "search" ELSE u.tab,
     feature  |-> IF u.place = None THEN None
                  ELSE [poi |-> u.place,
                        at |-> IF DecodeViewport(u) # None
                               THEN DecodeViewport(u) ELSE Home]]
EmbedPage(u) ==
    [kind |-> "embed", viewport |-> Home, camera |-> ParseEmbedParams(u).center,
     region |-> ParseEmbedParams(u).region, tab |-> "search", feature |-> None]

\* A feature comes with the card, and the card with its dialog, whose embed
\* source is computed from the address of that moment.
Card(f) == IF f = None THEN NoDialog
           ELSE IF page.feature = None THEN [NoDialog EXCEPT !.embed = EmbedOf(url)]
           ELSE dialog

OpenLink(u) ==
    /\ url' = u
    /\ last' = [hash |-> None, search |-> None]
    /\ page' = IF u.path = "/embed" THEN EmbedPage(u) ELSE ApplyDecoded(u)
    /\ dialog' = IF page'.feature = None THEN NoDialog
                 ELSE [NoDialog EXCEPT !.embed = EmbedOf(u)]
    /\ pending' = {}
    /\ UNCHANGED clipboard

\* What was copied is opened in another tab, by somebody else.
OpenCopied == clipboard # None /\ OpenLink(clipboard)

\* "Open in LocalMaps", on the embed page.
OpenInApp ==
    /\ page.kind = "embed"
    /\ OpenLink([BareUrl EXCEPT !.hash = ParseEmbedParams(url).center,
                                !.r = ParseEmbedParams(url).region])

(* ------------------------------ address bar ----------------------------- *)

\* commit: the search keeps whatever parameters it had.
NextSearch == [url EXCEPT !.hash = None, !.r = page.region]
Commit(v) ==
    IF last = [hash |-> v, search |-> NextSearch]
    THEN UNCHANGED <<url, last>>
    ELSE /\ url' = [NextSearch EXCEPT !.hash = v]
         /\ last' = [hash |-> v, search |-> NextSearch]

\* The map comes to rest; the embed page tells nobody.
MoveEnd(v) ==
    /\ IF page.kind = "map"
       THEN /\ page' = [page EXCEPT !.camera = v, !.viewport = v]
            /\ Commit(v)
       ELSE /\ page' = [page EXCEPT !.camera = v]
            /\ UNCHANGED <<url, last>>
    /\ UNCHANGED <<dialog, pending, clipboard>>

SwitchRegion(r) ==
    /\ page.kind = "map"
    /\ page' = [page EXCEPT !.region = r]
    /\ UNCHANGED <<url, last, dialog, pending, clipboard>>

\* A pin, a search result or a POI; None is the card's X.
ShowFeature(f) ==
    /\ page.kind = "map" /\ ~dialog.open
    /\ page' = [page EXCEPT !.feature = f]
    /\ dialog' = Card(f)
    /\ pending' = IF f = None THEN {} ELSE pending
    /\ UNCHANGED <<url, last, clipboard>>

(* ----------------------------- share dialog ----------------------------- *)

\* The memo behind the embed tab depends on the short link only.
Shortened(d, short, u) ==
    [d EXCEPT !.short = short,
              !.embed = IF short = d.short THEN @
                        ELSE IF short = None THEN EmbedOf(u) ELSE short]

\* handleShare rewrites the address, then the dialog opens and reads it.
Share ==
    /\ page.feature # None /\ ~dialog.open
    /\ url' = BuildShareLink(page.feature)
    /\ dialog' = [Shortened(dialog, None, url') EXCEPT
                    !.open = TRUE, !.tab = "link", !.long = url']
    /\ UNCHANGED <<page, last, pending, clipboard>>

CloseDialog ==
    /\ dialog.open
    /\ dialog' = [dialog EXCEPT !.open = FALSE]
    /\ UNCHANGED <<page, url, last, pending, clipboard>>

ChooseTab(tab) ==
    /\ dialog.open
    /\ dialog' = [dialog EXCEPT !.tab = tab]
    /\ UNCHANGED <<page, url, last, pending, clipboard>>

\* "Make short link" sends the address of that moment.
CreateShort ==
    /\ dialog.open /\ dialog.tab = "link" /\ dialog.short = None
    /\ Cardinality(pending) < MaxShort
    /\ pending' = pending \cup {url}
    /\ UNCHANGED <<page, url, last, dialog, clipboard>>

\* A short link stands for the link it was made from.  The answer is taken
\* whether or not the dialog has been opened for another place meanwhile.
ShortAnswer(u) ==
    /\ pending' = pending \ {u}
    /\ dialog' = Shortened(dialog, u, url)
    /\ UNCHANGED <<page, url, last, clipboard>>

ShortError(u) ==
    /\ pending' = pending \ {u}
    /\ UNCHANGED <<page, url, last, dialog, clipboard>>

CopyLink ==
    /\ dialog.open /\ dialog.tab = "link"
    /\ clipboard' \in {dialog.long, dialog.short} \ {None}
    /\ UNCHANGED <<page, url, last, dialog, pending>>

\* The QR code is scanned instead of being copied.
ScanCode ==
    /\ dialog.open /\ dialog.tab = "qr"
    /\ clipboard' = IF dialog.short # None THEN dialog.short ELSE dialog.long
    /\ UNCHANGED <<page, url, last, dialog, pending>>

CopyEmbed ==
    /\ dialog.open /\ dialog.tab = "embed"
    /\ clipboard' = dialog.embed
    /\ UNCHANGED <<page, url, last, dialog, pending>>

\* The page is opened by its bare address or by a canonical link.
Init ==
    \E v \in Views, r \in Regions \cup {None}, t \in Tabs \cup {"search"},
       p \in Places \cup {None} :
        \E u \in {BareUrl, EncodeState([viewport |-> v, region |-> r,
                                        tab |-> t, poi |-> p])} :
            /\ url = u
            /\ page = ApplyDecoded(u)
            /\ last = [hash |-> None, search |-> None]
            /\ dialog = IF page.feature = None THEN NoDialog
                        ELSE [NoDialog EXCEPT !.embed = EmbedOf(u)]
            /\ pending = {}
            /\ clipboard = None

Next ==
    \/ \E v \in Views : MoveEnd(v)
    \/ \E r \in Regions \cup {None} : SwitchRegion(r)
    \/ \E v \in Views, p \in Places \cup {None} : ShowFeature([poi |-> p, at |-> v])
    \/ ShowFeature(None)
    \/ Share \/ CloseDialog \/ CreateShort \/ CopyLink \/ ScanCode \/ CopyEmbed
    \/ \E tab \in {"link", "qr", "embed"} : ChooseTab(tab)
    \/ \E u \in pending : ShortAnswer(u) \/ ShortError(u)
    \/ OpenCopied \/ OpenInApp

Spec == Init /\ [][Next]_vars

(* ------------------------------ properties ------------------------------ *)

\* page.tsx says of restoring a link: "Hydrate Zustand stores from the current
\* URL (viewport, [...]) before MapCanvas reads its initial viewport. [...]
\* Without this the share-link round-trip silently drops."
LinkMovesTheCamera ==
    page.kind = "map" => page.camera = page.viewport

=============================================================================
