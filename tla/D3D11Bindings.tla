---------------------------- MODULE D3D11Bindings ----------------------------
(***************************************************************************)
(* Bindings on D3D11.  A binding set is an array of views per class and    *)
(* the range of slots it uses; binding it writes the whole range, and the  *)
(* sets are bound one after another.  There are no spaces and no tables.   *)
(***************************************************************************)
EXTENDS Bindings

CONSTANT ApiSlots           \* bound: slots per class

Slot(b) == b.slot + b.element
SlotsBound(bindings, class) ==
    {Slot(bindings[n]) : n \in {m \in Indices(bindings) :
        Class(bindings[m].type) = class /\ bindings[m].type # "SamplerFeedbackTexture_UAV"}}

(* From the least to the greatest slot; push constants are the buffer of the
   device that stands for them. *)
SlotRange(slots) == {n \in ApiSlots : (\E a \in slots : a <= n) /\ (\E b \in slots : n <= b)}

ViewAt(bindings, class, n, pushed) ==
    LET here == {m \in Indices(bindings) : Class(bindings[m].type) = class /\ Slot(bindings[m]) = n} IN
    IF here = {} THEN Null
    ELSE LET b == bindings[CHOOSE m \in here : \A k \in here : k <= m]
         IN  IF b.type = "PushConstants" THEN pushed ELSE b.resource

D3D11BindingSet(bindings, pushed) ==
    [class \in {"SRV", "UAV", "CB", "Sampler"} |->
        [n \in SlotRange(SlotsBound(bindings, class)) |-> ViewAt(bindings, class, n, pushed)]]

(* bindGraphicsResourceSets and bindComputeResourceSets, on slots nothing is
   bound to; UAVs of graphics are bound with the render targets instead. *)
BindSet(slots, visibility, set, stages) ==
    [stage \in DOMAIN slots |-> [class \in DOMAIN set |-> [n \in ApiSlots |->
        IF stage \in visibility \cap stages /\ n \in DOMAIN set[class] /\ (class = "UAV" => stage = "CS") THEN set[class][n] ELSE slots[stage][class][n]]]]

EmptySlots(allStages) ==
    [stage \in allStages |-> [class \in {"SRV", "UAV", "CB", "Sampler"} |-> [n \in ApiSlots |-> Null]]]

D3D11BindSets(layouts, sets, stages, allStages) ==
    FoldLeft(LAMBDA slots, i : BindSet(slots, layouts[i].visibility, sets[i], stages),
             EmptySlots(allStages), [i \in Indices(layouts) |-> i])
=============================================================================
