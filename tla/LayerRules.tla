------------------------------ MODULE LayerRules ------------------------------
(***************************************************************************)
(* The ordering rules of known API layers (LayerRules.cpp) and what they   *)
(* amount to for the layers that are there (ExpandRules of                 *)
(* linters/OrderingLinter.cpp).                                            *)
(*                                                                         *)
(* A facet is its id: the name of a layer (without XR_APILAYER_ and the    *)
(* vendor), of an extension (without XR_), or of an explicit facet.  The   *)
(* three kinds have no id in common.  A FacetMap is the set of its keys,   *)
(* as the traces are only shown to the user.                               *)
(***************************************************************************)
EXTENDS FiniteSets

ExtensionIDs == {"eye_gaze_interaction", "hand_tracking", "foveated_rendering"}
Facets == {"CompositionLayers", "TransformsPoses", "UsesGameWorldPoses"}

NoRules == [above |-> {}, below |-> {}, facets |-> {}, conflicts |-> {}, conflictsPerApp |-> {}]

GetLayerRules ==
  [TransformsPoses |-> [NoRules EXCEPT !.below = {"UsesGameWorldPoses"}],
   HandTrackedCockpitClicking |-> [NoRules EXCEPT !.above = {"hand_tracking"}],
   OpenKneeboard |-> [NoRules EXCEPT !.facets = {"CompositionLayers", "UsesGameWorldPoses"}],
   racelab_Overlay |-> [NoRules EXCEPT !.facets = {"CompositionLayers", "UsesGameWorldPoses"}],
   quad_views_foveated |-> [NoRules EXCEPT !.above = {"eye_gaze_interaction"}],
   toolkit |-> [NoRules EXCEPT !.above = {"eye_gaze_interaction", "hand_tracking"},
                               !.below = {"foveated_rendering"},
                               !.facets = {"CompositionLayers"},
                               !.conflictsPerApp = {"varjo_foveated"}],
   motion_compensation |-> [NoRules EXCEPT !.above = {"HandTrackedCockpitClicking"},
                                           !.facets = {"TransformsPoses"}],
   vulkan_d3d12_interop |-> [NoRules EXCEPT !.above = {"toolkit", "OBSMirror"}],
   OBSMirror |-> [NoRules EXCEPT !.below = {"CompositionLayers", "foveated_rendering"}],
   XRNeckSafer |-> [NoRules EXCEPT !.above = {"HandTrackedCockpitClicking", "CompositionLayers"}]]

-----------------------------------------------------------------------------
(* extensions: for the name of each layer that is there, those it provides. *)

\* One pass of ExpandFacets: every facet becomes the layers that have it.
LayersWith(facets, extensions, rules) ==
  (facets \ (ExtensionIDs \cup Facets))
    \cup {layer \in DOMAIN extensions : extensions[layer] \cap facets # {}}
    \cup {id \in DOMAIN rules : rules[id].facets \cap facets \cap Facets # {}}

\* ExpandFacets of a map: passes until one changes nothing.
ExpandFacets(facets, extensions, rules) ==
  LET ids == facets \cup DOMAIN extensions \cup DOMAIN rules
      expanded[some \in SUBSET ids] ==
        LET next == LayersWith(some, extensions, rules)
        IN  IF next = some THEN some ELSE expanded[next]
  IN  expanded[facets]

\* Mutant: rules of the layer's facets are not mixed in.
ExpandRuleUnmixed(layer, field, extensions, rules) ==
  ExpandFacets(rules[layer][field], extensions, rules)

\* ExpandFacets of a field of a layer's rules, with those of its facets.
ExpandRule(layer, field, extensions, rules) ==
  LET mixins == rules[layer].facets \cap DOMAIN rules
  IN  ExpandFacets(rules[layer][field] \cup UNION {rules[mixin][field] : mixin \in mixins},
                   extensions, rules)
=============================================================================
