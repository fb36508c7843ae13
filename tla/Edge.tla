-------------------------------- MODULE Edge --------------------------------
(***************************************************************************)
(* The web tier and the pages it serves: which surface a hostname is, what *)
(* the server redirects, refuses, hands to the API or answers with the     *)
(* shell, which view the shell then renders, and the links every view      *)
(* offers.  Server and browser each build addresses from the host map; a   *)
(* reader follows links from page to page and types addresses.             *)
(*                                                                         *)
(* A path is the sequence of its segments.  No hostname is declared with   *)
(* an empty map: one host serves every surface.                            *)
(***************************************************************************)
EXTENDS Naturals, Sequences, FiniteSets, FiniteSetsExt

CONSTANTS
    Maps,        \* what OPENPPWR_HOST_MAP may say: sequences of [host, surface]
    OneHost,     \* the name an unmapped deployment is reached under
    Unwww,       \* www. spellings and the hostnames they spell
    Locales,     \* English and others
    Slugs,       \* pages of the documentation
    Typed        \* paths a reader may type

VARIABLES
    hosts,       \* the host map
    request,     \* the request the browser waits for
    hops,        \* redirects since the reader last did something
    promise,     \* what the link the reader followed names
    answer,      \* the status of the last answer
    page         \* what the browser shows, and from where

edgeVars == <<hosts, request, hops, promise, answer, page>>

Surfaces == {"marketing", "app", "demo", "docs", "api", "status", "community"}
DefaultLocale == "en"
NoRequest == [method |-> "none", host |-> "", path |-> <<>>]
View(view, locale, rest) == [view |-> view, locale |-> locale, rest |-> rest]
Unpromised == View("any", "", "")
NoPage == [shows |-> View("nothing", "", ""), host |-> "", path |-> <<>>]

-----------------------------------------------------------------------------
(* Hostnames.  Of two entries for one hostname the later one counts; of    *)
(* two hostnames of one surface the earlier one is its canonical host.     *)

Readable(raw) == \A i \in DOMAIN raw : raw[i].surface \in Surfaces /\ raw[i].host # ""
Declared(name) == \E i \in DOMAIN hosts : hosts[i].host = name
ResolveSurface(name) ==
    IF hosts = <<>> THEN "all"
    ELSE IF Declared(name) THEN hosts[Max({i \in DOMAIN hosts : hosts[i].host = name})].surface
    ELSE "unknown"
HostFor(surface) ==
    LET named == {i \in DOMAIN hosts : ResolveSurface(hosts[i].host) = surface}
    IN IF hosts = <<>> \/ named = {} THEN "" ELSE hosts[Min(named)].host
RuntimeHosts == [s \in Surfaces |-> HostFor(s)]      \* stated in the shell
CanonicalHost(name) ==
    IF name \in DOMAIN Unwww /\ ~Declared(name) /\ Declared(Unwww[name]) THEN Unwww[name] ELSE ""

-----------------------------------------------------------------------------
(* Redirects of the marketing site, and of a host that serves everything.  *)

At(name, path) == [host |-> name, path |-> path]
Crossing == {"app", "demo", "docs"}
KeepSegment == {"app"}
LegacyMarketing == {"product", "community", "enterprise", "cloud", "connect", "regulatory", "services",
    "pricing", "roadmap", "security", "trust", "partners", "privacy", "terms", "cookies", "imprint"}

MarketingRedirectBare(name, path) ==
    IF Len(path) >= 2 /\ path[1] \in Locales /\ path[2] \in Crossing /\ HostFor(path[2]) # ""
    THEN {At(HostFor(path[2]), <<path[1]>> \o SubSeq(path, 3, Len(path)))} ELSE {}
MarketingRedirect(name, path) ==
    IF Len(path) >= 2 /\ path[1] \in Locales /\ path[2] \in Crossing /\ HostFor(path[2]) # ""
    THEN LET kept == SubSeq(path, IF path[2] \in KeepSegment THEN 2 ELSE 3, Len(path))
         IN {At(HostFor(path[2]), <<path[1]>> \o kept)}
    ELSE {}

LegacyRedirect(name, path) ==
    LET s == path[1]
    IN IF Len(path) # 1 \/ s \in Locales THEN {}
       ELSE IF s \in Crossing /\ HostFor(s) # ""
            THEN {At(HostFor(s), IF s \in KeepSegment THEN <<DefaultLocale, s>> ELSE <<DefaultLocale>>)}
       ELSE IF s \in Crossing \cup LegacyMarketing THEN {At(name, <<DefaultLocale, s>>)}
       ELSE {}

-----------------------------------------------------------------------------
(* Links.  `rest` is the path within a surface.                            *)

WithinHost(surface) == IF surface = "app" THEN <<"app">> ELSE <<>>
Tail1(rest) == IF rest = "" THEN <<>> ELSE <<rest>>
BuildLocaleHref(here, surface, locale, rest) ==
    IF RuntimeHosts[surface] # ""
    THEN At(RuntimeHosts[surface], <<locale>> \o WithinHost(surface) \o Tail1(rest))
    ELSE At(here, <<locale>> \o (IF surface = "marketing" THEN <<>> ELSE <<surface>>) \o Tail1(rest))

(* What such a link names.  On one host, the demonstration and the         *)
(* documentation as a whole are pages of the marketing site.               *)
Names(surface, locale, rest) ==
    CASE surface = "marketing" /\ rest \in Crossing /\ HostFor(rest) # "" ->
             View(IF rest = "app" THEN "workbench" ELSE rest, locale, "")
      [] surface = "marketing" /\ ~(rest \in Crossing /\ HostFor(rest) # "") ->
             View("site", locale, IF rest = "" THEN "home" ELSE rest)
      [] surface = "app" -> View("workbench", locale, "")
      [] surface \in {"demo", "docs"} /\ HostFor(surface) = "" /\ rest = "" -> View("site", locale, surface)
      [] OTHER -> View(surface, locale, rest)

Link(here, surface, locale, rest) ==
    [to |-> BuildLocaleHref(here, surface, locale, rest), names |-> Names(surface, locale, rest),
     declared |-> hosts = <<>> \/ HostFor(surface) # ""]

SiteNav == {"product", "community", "cloud", "connect", "regulatory", "services", "docs"}
SiteNavItems(here, locale) ==
    {Link(here, IF key = "docs" THEN "docs" ELSE "marketing", locale, IF key = "docs" THEN "" ELSE key) :
         key \in SiteNav}
SurfaceLinkItems(here, locale) == {Link(here, s, locale, "") : s \in {"marketing", "demo", "status"}}

(* The links of a view: those of the shell around a surface, of the pages  *)
(* of the documentation, of the workbench, and of the marketing site,      *)
(* whose own pages link to each other by path.                             *)
ShellLinks(here, surface, locale, within) ==
    SiteNavItems(here, locale) \cup SurfaceLinkItems(here, locale)
    \cup {Link(here, surface, l, within) : l \in Locales}
PortalLinks(here, locale) == {Link(here, "docs", locale, slug) : slug \in Slugs}
WorkbenchLinks(here, locale) ==
    SiteNavItems(here, locale) \cup {Link(here, s, locale, "") : s \in {"demo", "marketing", "status"}}
SiteRoutes == LegacyMarketing \cup {"demo", "docs"}
Withheld == {"terms"}
PathLink(here, locale, route) ==
    [to |-> At(here, IF route = "home" THEN <<locale>> ELSE <<locale, route>>),
     names |-> Names("marketing", locale, IF route = "home" THEN "" ELSE route), declared |-> TRUE]
SiteLinks(here, locale, route) ==
    {PathLink(here, locale, r) : r \in (SiteRoutes \ Withheld) \cup {"home"}}
    \cup {Link(here, "app", locale, "")}
    \cup (IF route \in SiteRoutes \cup {"home"} THEN {PathLink(here, l, route) : l \in Locales} ELSE {})
    \cup (IF route = "docs" THEN PortalLinks(here, locale) ELSE {})

Offers(shown) ==
    LET v == shown.shows
    IN CASE v.view = "site" -> SiteLinks(shown.host, v.locale, v.rest)
         [] v.view = "not found" -> SiteLinks(shown.host, v.locale, "none")
         [] v.view = "workbench" -> WorkbenchLinks(shown.host, v.locale)
         [] v.view = "docs" -> ShellLinks(shown.host, "docs", v.locale, v.rest)
                               \cup PortalLinks(shown.host, v.locale)
         [] OTHER -> ShellLinks(shown.host, v.view, v.locale, "")

-----------------------------------------------------------------------------
(* The view the shell renders, from the surface it states and the path.    *)

Surfaced(surface, locale, path, from) ==      \* path without its locale
    CASE surface = "app" -> View("workbench", locale, "")
      [] surface = "docs" -> View("docs", locale, IF Len(path) >= from THEN path[from] ELSE "")
      [] surface \in {"demo", "status", "community"} -> View(surface, locale, "")
      [] OTHER -> LET route == IF path = <<>> THEN "home" ELSE path[1]
                  IN IF route \in SiteRoutes \cup {"home"} THEN View("site", locale, route)
                     ELSE View("not found", locale, "")
App(surface, path) ==
    LET localized == path # <<>> /\ path[1] \in Locales
        locale == IF localized THEN path[1] ELSE DefaultLocale       \* or the browser's
        rest == IF localized THEN Tail(path) ELSE path
    IN CASE surface = "docs" -> Surfaced("docs", locale, path, 2)
         [] surface = "all" /\ rest # <<>> /\ rest[1] \in {"app", "workbench"} -> Surfaced("app", locale, rest, 1)
         [] surface = "all" /\ Len(rest) > 1 /\ rest[1] = "docs" -> Surfaced("docs", locale, rest, 2)
         [] surface = "all" /\ rest # <<>> /\ rest[1] = "status" -> Surfaced("status", locale, rest, 1)
         [] OTHER -> Surfaced(surface, locale, rest, 1)

(* What a view asks of the API on its own host.                            *)
Calls(view) ==
    {"version"} \cup (IF view \in {"workbench", "demo"} THEN {"permissions"} ELSE {})
    \cup (IF view = "workbench" THEN {"demo accounts", "data"} ELSE {})

-----------------------------------------------------------------------------
(* The server: the first of its answers whose condition holds.             *)

Surface == ResolveSurface(request.host)
ToApi == Len(request.path) > 1 /\ request.path[1] = "v1"
Repeatable == request.method \in {"GET", "HEAD"}
ProbesApi == request.path \in {<<"health", "live">>, <<"health", "ready">>}
Waits == request # NoRequest
Answered(status) == answer' = status /\ request' = NoRequest /\ UNCHANGED <<hosts, hops, promise, page>>
RedirectedTo(address) ==
    /\ request' = [request EXCEPT !.host = address.host, !.path = address.path]
    /\ hops' = hops + 1
    /\ UNCHANGED <<hosts, promise, answer, page>>

Health == Waits /\ request.path = <<"health">> /\ Answered(200)
Alias ==
    /\ Waits /\ request.path # <<"health">> /\ Surface = "unknown"
    /\ Repeatable /\ ~ToApi /\ CanonicalHost(request.host) # ""
    /\ RedirectedTo(At(CanonicalHost(request.host), request.path))
UnknownHost ==
    /\ Waits /\ request.path # <<"health">> /\ Surface = "unknown"
    /\ ~(Repeatable /\ ~ToApi /\ CanonicalHost(request.host) # "")
    /\ Answered(404)

ServesCall(name, call) ==
    hosts = <<>> \/ call = "version" \/ ResolveSurface(name) \in {"api", "app", "demo", "marketing"}
Proxy ==         \* the API answers, or cannot be reached
    /\ Waits /\ Surface # "unknown"
    /\ ProbesApi \/ (ToApi /\ ServesCall(request.host, request.path[2]))
    /\ Answered(200) \/ Answered(502)
CallRefused ==
    /\ Waits /\ Surface # "unknown" /\ ToApi /\ ~ServesCall(request.host, request.path[2])
    /\ Answered(404)

IsDocument == Waits /\ Surface # "unknown" /\ ~ToApi /\ ~ProbesApi /\ request.path # <<"health">>
ApiHost == IsDocument /\ Surface = "api" /\ Answered(404)
Target ==
    IF Surface \notin {"marketing", "all"} THEN {}
    ELSE IF MarketingRedirect(request.host, request.path) # {}
         THEN MarketingRedirect(request.host, request.path) ELSE LegacyRedirect(request.host, request.path)
Redirect == IsDocument /\ Surface # "api" /\ \E address \in Target : RedirectedTo(address)
NotAllowed == IsDocument /\ Surface # "api" /\ Target = {} /\ ~Repeatable /\ Answered(405)
Shell ==
    /\ IsDocument /\ Surface # "api" /\ Target = {} /\ Repeatable
    /\ page' = [shows |-> App(Surface, request.path), host |-> request.host, path |-> request.path]
    /\ answer' = 200 /\ request' = NoRequest
    /\ UNCHANGED <<hosts, hops, promise>>

-----------------------------------------------------------------------------
(* The reader.  A path typed on the marketing site means what the site's   *)
(* own link to that page names.                                            *)

Reachable == {OneHost} \cup DOMAIN Unwww \cup {hosts[i].host : i \in DOMAIN hosts}
Meant(name, path) ==
    LET home == IF CanonicalHost(name) # "" THEN CanonicalHost(name) ELSE name
    IN IF ResolveSurface(home) \in {"marketing", "all"}
       THEN CASE Len(path) = 1 /\ path[1] \in SiteRoutes \cup Crossing ->
                     Names(IF path[1] \in Crossing THEN path[1] ELSE "marketing", DefaultLocale,
                           IF path[1] \in Crossing THEN "" ELSE path[1])
              [] Len(path) = 2 /\ path[1] \in Locales /\ path[2] \in Crossing ->
                     Names(path[2], path[1], "")
              [] OTHER -> Unpromised
       ELSE Unpromised
Asks(method, address, names) ==
    /\ ~Waits
    /\ request' = [method |-> method, host |-> address.host, path |-> address.path]
    /\ hops' = 0 /\ promise' = names /\ answer' = 0 /\ page' = NoPage
    /\ UNCHANGED hosts
Follow == page # NoPage /\ \E link \in Offers(page) :
              Asks("GET", link.to, IF link.declared THEN link.names ELSE Unpromised)
Type == \E name \in Reachable, path \in Typed :
            Asks("GET", At(name, path),
                 IF \A s \in Crossing : hosts = <<>> \/ HostFor(s) # "" THEN Meant(name, path) ELSE Unpromised)
Post == \E name \in Reachable, path \in Typed : Asks("POST", At(name, path), Unpromised)

-----------------------------------------------------------------------------
(* A map with an unknown surface or without a hostname stops the start.    *)
Init ==
    /\ hosts \in {raw \in Maps : Readable(raw)}
    /\ request = NoRequest /\ hops = 0 /\ promise = Unpromised /\ answer = 0 /\ page = NoPage

Next ==
    \/ Health \/ Alias \/ UnknownHost \/ Proxy \/ CallRefused \/ ApiHost \/ Redirect \/ NotAllowed \/ Shell
    \/ Follow \/ Type \/ Post

Spec == Init /\ [][Next]_edgeVars

-----------------------------------------------------------------------------
(* A link to a surface the deployment declares leads to the view it names, *)
(* in the reader's language and however many redirects lie between, as     *)
(* does the path typed on the marketing site, and each time under the one  *)
(* path that links to that view carry; at most two redirects do, and       *)
(* whatever a view asks of the API on its own host is let through.         *)
Canonical(v) ==
    BuildLocaleHref("", CASE v.view = "site" -> "marketing" [] v.view = "workbench" -> "app" [] OTHER -> v.view,
                    v.locale, IF v.view = "site" /\ v.rest = "home" THEN "" ELSE v.rest).path
LinksLand ==
    /\ hops <= 2
    /\ (promise # Unpromised /\ answer # 0) =>
           (answer = 200 /\ page.shows = promise /\ page.path = Canonical(promise))
    /\ page # NoPage => \A call \in Calls(page.shows.view) : ServesCall(page.host, call)
=============================================================================
