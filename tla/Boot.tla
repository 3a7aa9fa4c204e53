---------------------------------- MODULE Boot ----------------------------------
(***************************************************************************)
(* How a page finds out which tier it is (main.tsx, deployment.ts,         *)
(* siteTable.ts, TierApp.tsx, lib/tierShape.ts, Root.tsx).  Before the     *)
(* first render it fetches the deployment file, its overlay and the site   *)
(* table, any of which may fail; what was read is merged, parsed and       *)
(* becomes the deployment the whole page reads; then branding is fetched.  *)
(*                                                                         *)
(* A file is a function from the keys that it declares.  A file that could *)
(* not be read declares nothing: every field then has its default.  A      *)
(* section with a list, or with fields, is a set of parts, each "fine" or  *)
(* "bent"; a site table is a sequence of rows or one that is no table.     *)
(* The session gate of Root.tsx is in BrowserSession.                      *)
(***************************************************************************)
EXTENDS Naturals, Sequences, Functions

CONSTANTS
    BaseFiles,      \* what /deployment/deployment.json may hold
    OverlayFiles,   \* what the overlay's may hold
    SiteTables,     \* what the site table may hold: [ok, rows]
    DemoPaths       \* the values of atDemoPath(): at a node's address FALSE

VARIABLES
    btServed,   \* the three files as the deployment serves them
    btGot,      \* btGot[source]: "asked", "read" or "failed"
    btActive,   \* deployment.ts's active
    btStage,    \* "fetching", "branding", "shown"
    btDemo,     \* the page's path is the demo shell's
    btView      \* the demo shell's tab

bootVars == <<btServed, btGot, btActive, btStage, btDemo, btView>>

Sources == {"base", "overlay", "sites"}
Parts == {"fine", "bent"}
ShellViews == {"maintainer", "regional", "hq"}
Nothing == << >>                            \* the file that declares no key

ASSUME BootAssumption ==
    /\ \A f \in BaseFiles \cup OverlayFiles : \A section \in {"links", "map"} \cap DOMAIN f : f[section] \subseteq Parts
    /\ DemoPaths \subseteq BOOLEAN

\* IMPLICIT_ROOT, and the shapes that the shell composes.  A tier has a parent
\* or none; id "rejected" stands for a tier that parseTier refuses.
ImplicitRoot == [id |-> "root", parent |-> "none", children |-> TRUE, scope |-> "none"]
Rejected == [id |-> "rejected", parent |-> "none", children |-> TRUE, scope |-> "none"]
ShellShapes ==
    [maintainer |-> [ImplicitRoot EXCEPT !.parent = "shell-intermediate", !.children = FALSE],
     regional   |-> [ImplicitRoot EXCEPT !.parent = "shell-root"],
     hq         |-> ImplicitRoot]

\* DEFAULT.
Default ==
    [tier |-> ImplicitRoot, title |-> "default", links |-> {}, map |-> {}, liveness |-> {},
     fobs |-> {}, ownFob |-> "none", siteError |-> FALSE]

BootInit ==
    /\ btServed \in [base : BaseFiles, overlay : OverlayFiles, sites : SiteTables]
    /\ btGot = [s \in Sources |-> "asked"]
    /\ btActive = Default /\ btStage = "fetching"
    /\ btDemo \in DemoPaths /\ btView \in ShellViews

-----------------------------------------------------------------------------
(* The parsers, by what one bent part costs. *)

\* One by one: edges, childLinks, tiers, panes, units, loads and standards.
EntriesKept(parts) == parts \ {"bent"}

\* All or nothing: map, terrain, egressPane.
WholeOrNothing(parts) == IF "bent" \in parts THEN {} ELSE parts

\* Field by field, a bent one at its default: liveness, cortex, branding.
FieldsKept(parts) == parts \ {"bent"}

\* declaredLinkIds, and the other readers of what was declared.
DeclaredLinks == btActive.links

\* [mutant] A tier that is refused falls back to the default, as one that is absent.
RejectedIsRoot(file) ==
    IF "tier" \notin DOMAIN file \/ file["tier"] = Rejected THEN ImplicitRoot ELSE file["tier"]

\* parseTier where the key is there, the implicit root where it is not.
TierOf(file) == IF "tier" \in DOMAIN file THEN file["tier"] ELSE ImplicitRoot

SectionOf(file, key) == IF key \in DOMAIN file THEN file[key] ELSE {}

\* mergeDeploymentSources: an overlay's key replaces the base's, whole.
FileRead(s) == IF btGot[s] = "read" THEN btServed[s] ELSE Nothing
Merged ==
    LET base == FileRead("base")  overlay == FileRead("overlay") IN
    [key \in DOMAIN base \cup DOMAIN overlay |-> IF key \in DOMAIN overlay THEN overlay[key] ELSE base[key]]

\* The whole of it is parsed in one try: a title that is not a text throws, and
\* the default stays as it is.
Throws(file) == "title" \in DOMAIN file /\ file["title"] = "odd"

Parsed(file) ==
    IF Throws(file) THEN Default
    ELSE [Default EXCEPT
            !.tier = TierOf(file),
            !.title = IF "title" \in DOMAIN file THEN file["title"] ELSE @,
            !.links = EntriesKept(SectionOf(file, "links")),
            !.map = WholeOrNothing(SectionOf(file, "map")),
            !.liveness = FieldsKept(SectionOf(file, "liveness"))]

\* parseSiteTable: one bad row, or an edge named twice, refuses the table.
GoodTable(table) == table.ok /\ IsInjective([i \in DOMAIN table.rows |-> table.rows[i].edge])

\* selectForTier: which of the table's rows this instance draws.
FobsOf(tier, rows) ==
    LET region == {f.region : f \in {f \in rows : f.edge = tier.id}} IN
    CASE tier = Rejected                              -> {}
      [] tier # Rejected /\ tier.parent = "none"      -> rows
      [] tier.parent # "none" /\ region # {}          -> {f \in rows : f.region \in region}
      [] OTHER                                        -> {f \in rows : f.region = tier.id}

OwnFobOf(tier, rows) ==
    IF tier.parent # "none" /\ (\E f \in rows : f.edge = tier.id) THEN tier.id ELSE "none"

\* The site table is applied whatever became of the rest.
WithSites(d) ==
    IF btGot["sites"] # "read" THEN d
    ELSE IF ~GoodTable(btServed.sites) THEN [d EXCEPT !.siteError = TRUE]
    ELSE LET rows == Range(btServed.sites.rows) IN
         [d EXCEPT !.fobs = FobsOf(d.tier, rows), !.ownFob = OwnFobOf(d.tier, rows)]

-----------------------------------------------------------------------------
(* loadDeployment, and the first render. *)

\* fetchJsonObject, fetchSiteTableText: a failure is swallowed.
FetchEnds(s) ==
    /\ btGot[s] = "asked"
    /\ \E end \in {"read", "failed"} : btGot' = [btGot EXCEPT ![s] = end]
    /\ UNCHANGED <<btServed, btActive, btStage, btDemo, btView>>

DeploymentApplied ==
    /\ btStage = "fetching" /\ \A s \in Sources : btGot[s] # "asked"
    /\ btActive' = WithSites(Parsed(Merged))
    /\ btStage' = "branding"
    /\ UNCHANGED <<btServed, btGot, btDemo, btView>>

\* applyBranding sets the title and the logo; then the page renders.
Branded ==
    /\ btStage = "branding"
    /\ btActive' \in {btActive, [btActive EXCEPT !.title = "branding"]}
    /\ btStage' = "shown"
    /\ UNCHANGED <<btServed, btGot, btDemo, btView>>

SetView ==
    /\ btStage = "shown" /\ btDemo
    /\ btView' \in ShellViews \ {btView}
    /\ UNCHANGED <<btServed, btGot, btActive, btStage, btDemo>>

BootNext == (\E s \in Sources : FetchEnds(s)) \/ DeploymentApplied \/ Branded \/ SetView

BootSpec == BootInit /\ [][BootNext]_bootVars

\* instanceForShape, and what Root.tsx renders of it.
InstanceForShape(tier) ==
    IF ~tier.children THEN "leaf" ELSE IF tier.parent # "none" THEN "intermediate" ELSE "root"

BootScreen ==
    IF btStage # "shown" THEN "blank"
    ELSE IF btDemo THEN InstanceForShape(ShellShapes[btView])
    ELSE IF btActive.tier = Rejected THEN "rejected" ELSE InstanceForShape(btActive.tier)

-----------------------------------------------------------------------------
(* Properties. *)

BootTypeOK ==
    /\ btGot \in [Sources -> {"asked", "read", "failed"}]
    /\ btStage \in {"fetching", "branding", "shown"}
    /\ DOMAIN btActive = DOMAIN Default
    /\ btActive.links \subseteq Parts /\ btActive.map \subseteq Parts
    /\ btDemo \in BOOLEAN /\ btView \in ShellViews

RefusedTier == ~Throws(Merged) /\ "tier" \in DOMAIN Merged /\ Merged["tier"] = Rejected

\* Whatever was read, refused or left out: a page whose tier was refused draws
\* nobody's sites and shows no fleet, one below the root draws the sites of one
\* region only, its own among them, and a refused site table draws nothing.
SitesAreItsOwn ==
    btStage = "shown" =>
        /\ RefusedTier => btActive.fobs = {} /\ (BootScreen = "rejected" \/ btDemo)
        /\ btActive.tier.parent # "none" => \A f, g \in btActive.fobs : f.region = g.region
        /\ btActive.ownFob # "none" => \E f \in btActive.fobs : f.edge = btActive.ownFob
        /\ btActive.siteError => btActive.fobs = {}

\* "loadDeployment only substitutes this when the key is absent altogether"
\* (deployment.ts 423-425): whatever shows itself as the implicit root serves
\* a deployment that declares no tier.
IdentityIsDeclared ==
    btStage = "shown" /\ btActive.tier = ImplicitRoot =>
        "tier" \notin DOMAIN btServed.base \cup DOMAIN btServed.overlay
=============================================================================
