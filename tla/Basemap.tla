------------------------------- MODULE Basemap -------------------------------
(***************************************************************************)
(* Where a map's terrain comes from and how it is drawn: the deployment's  *)
(* terrain block laid over the packaged defaults (lib/terrainTiles.ts), the*)
(* controls of the terrain and their store (components/terrain/prefs.ts),  *)
(* and the credit lines of what is on screen.                              *)
(*                                                                         *)
(* External: the deployment's block, and the browser's storage, which may  *)
(* be empty, bent or refuse to be written.                                 *)
(***************************************************************************)
EXTENDS Integers

CONSTANTS
    TerrainBlocks,   \* blocks a deployment may carry: [basemap, network, urls, credited]
    MaxControls      \* bound: turns of the controls and reloads

UrlFields == {"elevation", "imagery", "patch", "land", "lakes", "water"}

ASSUME BasemapAssumption ==
    /\ MaxControls \in Nat
    /\ \A b \in TerrainBlocks :
          /\ b.basemap \in {"relief", "imagery", "licensed"} /\ b.network \in BOOLEAN
          \* a field is unset, on this site, or on another
          /\ b.urls \in [UrlFields -> {"unset", "local", "remote"}] /\ b.credited \subseteq UrlFields

VARIABLES
    bmBlock,    \* the deployment's terrain block
    bmPrefs,    \* the controls: the terrain on or off, its style
    bmStored,   \* what the storage holds under TERRAIN_PREFS_KEY
    bmWritable, \* the storage can be written
    bmRefused,  \* history: a choice since the page came up could not be stored
    bmTurns     \* turns taken

basemapVars == <<bmBlock, bmPrefs, bmStored, bmWritable, bmRefused, bmTurns>>

Prefs == [on : BOOLEAN, style : {"sat", "holo"}]
DefaultPrefs == [on |-> TRUE, style |-> "sat"]

\* Stored: fields of the right type, or bent ones; nothing at all is all bent.
StoredPrefs == [on : {"yes", "no", "bent"}, style : {"sat", "holo", "bent"}]
NoneStored == [on |-> "bent", style |-> "bent"]

BasemapTypeOK ==
    /\ bmBlock \in TerrainBlocks /\ bmPrefs \in Prefs /\ bmStored \in StoredPrefs
    /\ bmWritable \in BOOLEAN /\ bmRefused \in BOOLEAN /\ bmTurns \in 0..MaxControls

-----------------------------------------------------------------------------
(* resolveTerrainSource. *)

\* A remote address is refused while the network is off.
Refused(block, f) == ~block.network /\ block.urls[f] = "remote"

DefaultUrl(f) == IF f = "patch" THEN "none" ELSE "packaged"

Resolved(block, f) ==
    IF block.urls[f] = "unset" \/ Refused(block, f) THEN DefaultUrl(f) ELSE block.urls[f]

\* Relief has no imagery at all; a licensed layer is also its own patches.
UrlOf(block, f) ==
    CASE f \in {"imagery", "patch"} /\ block.basemap = "relief" -> "none"
      [] f = "patch" /\ block.basemap = "licensed" /\ block.urls.patch = "unset" -> Resolved(block, "imagery")
      [] OTHER -> Resolved(block, f)

\* The packaged coastline's credit does not describe another file.
CreditOf(block, f) ==
    CASE f \in block.credited -> "configured"
      [] f = "land" /\ f \notin block.credited
         /\ \A g \in {"land", "lakes"} : Resolved(block, g) = "packaged" -> "packaged"
      [] OTHER -> "none"

\* creditLines, for what is drawn: the sources whose line is shown.
Credited(block, style, mask) ==
    {f \in UrlFields : CreditOf(block, f) # "none" /\
        CASE f = "elevation" -> TRUE
          [] f = "imagery" -> style = "sat" /\ block.basemap # "relief"
          [] f = "patch" -> style = "sat" /\ block.basemap # "relief" /\ UrlOf(block, f) # "none"
          [] f \in {"land", "water"} -> mask
          [] OTHER -> FALSE}

-----------------------------------------------------------------------------
(* The controls and their store. *)

LoadPrefs(stored) ==
    [on |-> IF stored.on = "bent" THEN DefaultPrefs.on ELSE stored.on = "yes",
     style |-> IF stored.style = "bent" THEN DefaultPrefs.style ELSE stored.style]

Written(prefs) == [on |-> IF prefs.on THEN "yes" ELSE "no", style |-> prefs.style]

BasemapInit ==
    /\ bmBlock \in TerrainBlocks /\ bmStored \in {NoneStored, [on |-> "no", style |-> "bent"]}
    /\ bmPrefs = LoadPrefs(bmStored)
    /\ bmWritable \in BOOLEAN /\ bmRefused = FALSE /\ bmTurns = 0

ControlTurn == bmTurns < MaxControls /\ bmTurns' = bmTurns + 1 /\ UNCHANGED <<bmBlock, bmWritable>>

\* A control is used: the choice holds at once, stored or not.
UpdatePrefs(prefs) ==
    /\ ControlTurn /\ prefs # bmPrefs
    /\ bmPrefs' = prefs
    /\ bmStored' = IF bmWritable THEN Written(prefs) ELSE bmStored
    /\ bmRefused' = (~bmWritable)

ReloadPage ==
    /\ ControlTurn
    /\ bmPrefs' = LoadPrefs(bmStored) /\ bmRefused' = FALSE
    /\ UNCHANGED bmStored

BasemapNext == (\E prefs \in Prefs : UpdatePrefs(prefs)) \/ ReloadPage

BasemapSpec == BasemapInit /\ [][BasemapNext]_basemapVars

-----------------------------------------------------------------------------
(* Properties. *)

\* Nothing of the terrain is fetched from another site unless the deployment
\* turns the network on, also where one layer takes another's address.
NothingRemote == ~bmBlock.network => \A f \in UrlFields : UrlOf(bmBlock, f) # "remote"

\* A packaged credit stands only where the packaged files are what is drawn, and
\* no line is shown for imagery that is not.
CreditsTrue ==
    \A mask \in BOOLEAN : \A f \in Credited(bmBlock, bmPrefs.style, mask) :
        /\ CreditOf(bmBlock, f) = "packaged" => UrlOf(bmBlock, "land") = "packaged" /\ UrlOf(bmBlock, "lakes") = "packaged"
        /\ UrlOf(bmBlock, f) # "none"

\* A reload shows the terrain as it was chosen, unless the choice was refused.
ChoiceSurvives == LoadPrefs(bmStored) = bmPrefs \/ bmRefused

BasemapObeyed == NothingRemote /\ CreditsTrue /\ ChoiceSurvives
=============================================================================
