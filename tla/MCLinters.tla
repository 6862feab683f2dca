------------------------------ MODULE MCLinters ------------------------------
(* Instances of Linters for TLC: a world is a choice of manifests for     *)
(* the paths, and what else linters look at.                               *)
EXTENDS Linters

CONSTANTS a, b, c, d

NoDetails ==
  [state |-> "NoJsonFile", name |-> "", extensions |-> {}, library |-> {}, version |-> "",
   signature |-> "FilesystemError", enableEnvironment |-> "", disableEnvironment |-> ""]

Installed(name) ==
  [NoDetails EXCEPT !.state = "Loaded", !.name = name, !.version = "1",
                    !.library = {"exists", "ProgramFiles"}, !.signature = "Signed",
                    !.disableEnvironment = "DISABLE"]

Providing(name, extension) == [Installed(name) EXCEPT !.extensions = {extension}]

Manifests(x, y, z) == a :> x @@ b :> y @@ c :> z

HandTrackedCockpitClicking == Installed("HandTrackedCockpitClicking")
MotionCompensation == Installed("motion_compensation")
OpenKneeboard == Installed("OpenKneeboard")
Racelab == Installed("racelab_Overlay")
OBSMirror == Installed("OBSMirror")
Toolkit == Installed("toolkit")
XRNeckSafer == Installed("XRNeckSafer")
Ultraleap == Providing("ULTRALEAP_hand_tracking", "hand_tracking")
QuadViews == Providing("quad_views_foveated", "foveated_rendering")
Eyes == Providing("eyes", "eye_gaze_interaction")

\* Layers that rules relate by name, by extension and by facet, none of which is
\* asked to be above one and below another.
Orderly ==
  {Manifests(XRNeckSafer, HandTrackedCockpitClicking, OpenKneeboard),
   Manifests(XRNeckSafer, HandTrackedCockpitClicking, Ultraleap),
   Manifests(Installed("vulkan_d3d12_interop"), OBSMirror, Racelab),
   Manifests(OBSMirror, QuadViews, Eyes),
   Manifests(MotionCompensation, Racelab, OpenKneeboard),
   Manifests(Toolkit, Ultraleap, Eyes)}

\* Layers above one and below another, a conflict, and a layer that provides what
\* it is asked to be above.
Disorderly ==
  {Manifests(MotionCompensation, HandTrackedCockpitClicking, OpenKneeboard),
   Manifests(Toolkit, QuadViews, Eyes),
   Manifests(Toolkit, Installed("varjo_foveated"), OBSMirror),
   Manifests(Providing("toolkit", "hand_tracking"), OBSMirror, Ultraleap)}

\* Chains of four such layers.
OrderlyFours ==
  {Manifests(XRNeckSafer, HandTrackedCockpitClicking, OpenKneeboard) @@ d :> Ultraleap,
   Manifests(Installed("vulkan_d3d12_interop"), OBSMirror, Racelab) @@ d :> OpenKneeboard,
   Manifests(Installed("vulkan_d3d12_interop"), Toolkit, Eyes) @@ d :> Ultraleap}

WithCopies == {Manifests(MotionCompensation, MotionCompensation, OpenKneeboard)}

\* Something is wrong with each.
Bad ==
  {Manifests(NoDetails, Installed("NOVENDOR_OpenKneeboard"),
             [Racelab EXCEPT !.disableEnvironment = ""]),
   Manifests([Installed("VIVE_MR") EXCEPT !.library = {"exists"}, !.signature = "Unsigned"],
             [Racelab EXCEPT !.enableEnvironment = "ENABLE", !.signature = "NotSupported"],
             [OpenKneeboard EXCEPT !.library = {"exists", "MSIX"}]),
   Manifests([Toolkit EXCEPT !.library = {"ProgramFiles"}], OpenKneeboard, OBSMirror)}

-----------------------------------------------------------------------------
World(details) ==
  [store |-> [kind |-> "Implicit", bitness |-> 64, root |-> "HKLM"], details |-> details,
   environment |-> {}, runtime |-> (32 :> "None" @@ 64 :> "SteamVR"), loaderData |-> <<>>]

\* The loader has answered, and passed over all but OpenKneeboard.
Answered(w) == [w EXCEPT !.loaderData = 64 :> {"OpenKneeboard"}]

MCWorlds ==
  {World(details) : details \in Orderly \cup OrderlyFours \cup Disorderly \cup WithCopies}
    \cup UNION {{[w EXCEPT !.runtime[64] = "Oculus"],
                 [w EXCEPT !.runtime[64] = "None"],
                 [w EXCEPT !.environment = {"ENABLE"}],
                 [w EXCEPT !.environment = {"DISABLE"}],
                 [w EXCEPT !.store.root = "HKCU"],
                 [w EXCEPT !.store.bitness = 32],
                 [w EXCEPT !.store.kind = "Explicit"]} :
                  w \in {Answered(World(details)) : details \in Bad}}

MCWorldsWithCopies == {World(details) : details \in WithCopies}

MCTornWorlds ==
  {World(Manifests(MotionCompensation, HandTrackedCockpitClicking, OpenKneeboard))}
=============================================================================
