---------------------------- MODULE D3D12Bindings ----------------------------
(***************************************************************************)
(* Bindings on D3D12.  A layout becomes root parameters: push constants,   *)
(* one root descriptor per volatile constant buffer, and a table each of   *)
(* samplers and of all other descriptors, divided into ranges of registers.*)
(* A root signature is the parameters of all layouts of a pipeline in      *)
(* order; a binding set fills tables of its own when it is created.        *)
(***************************************************************************)
EXTENDS Bindings

NormalizedType(type) ==
    CASE type \in {"StructuredBuffer_UAV", "RawBuffer_UAV"} -> "TypedBuffer_UAV"
      [] type \in {"StructuredBuffer_SRV", "RawBuffer_SRV"} -> "TypedBuffer_SRV"
      [] OTHER -> type

(* Types that can share a range of descriptors. *)
Compatible(a, b) ==
    LET n == {NormalizedType(a), NormalizedType(b)} IN
    a = b \/ (Cardinality(n) = 2 /\ (n \subseteq SrvTypes \/ n \subseteq {"TypedBuffer_UAV", "Texture_UAV"}))

---------------------------------------------------------------------------
(* The ranges of a layout, item by item.                                    *)

Table(type) == IF type = "Sampler" THEN "samplers" ELSE "others"

NoRanges(space) ==
    [space |-> space, ranges |-> [samplers |-> <<>>, others |-> <<>>], size |-> [samplers |-> 0, others |-> 0],
     volatiles |-> <<>>, constants |-> <<>>, type |-> "None", slot |-> 0]

StartRange(r, item) ==
    LET t == Table(item.type) IN
    [r EXCEPT !.ranges[t] = Append(@, [class |-> Class(item.type), base |-> item.slot,
                                       space |-> r.space, count |-> item.size, offset |-> r.size[t]]),
              !.size[t] = @ + item.size, !.type = item.type, !.slot = item.slot]

ExtendRange(r, item) ==
    LET t == Table(item.type) IN
    [r EXCEPT !.ranges[t][Len(r.ranges[t])].count = @ + item.size,
              !.size[t] = @ + item.size, !.slot = item.slot]

(* A range is extended by the item at the slot after the last item's, whose
   type stays the one that started the range. *)
ExtendsLoosely(r, item) == r.type # "None" /\ Table(item.type) = Table(r.type) /\ item.slot = r.slot + 1 \* a mutant
Extends(r, item) == Compatible(item.type, r.type) /\ item.slot = r.slot + 1

AddItem(r, item) ==
    CASE item.type = "VolatileConstantBuffer" -> [r EXCEPT !.volatiles = Append(@, item.slot)]
      [] item.type = "PushConstants" -> [r EXCEPT !.constants = <<item.slot>>]
      [] OTHER -> IF Extends(r, item) THEN ExtendRange(r, item) ELSE StartRange(r, item)

Ranges(layout) == FoldLeft(AddItem, NoRanges(layout.space), layout.items)

(* convertShaderStage: several stages are all stages. *)
ShaderVisibility(layout, allStages) ==
    IF Cardinality(layout.visibility) = 1 THEN layout.visibility ELSE allStages

OneRegister(slot, space) == <<[class |-> "CB", base |-> slot, space |-> space, count |-> 1, offset |-> 0]>>
UnboundedRange(s, capacity) == [class |-> Class(s.type), base |-> 0, space |-> s.slot, count |-> capacity, offset |-> 0]

(* The root parameters of one layout, before it is given stages and space. *)
LocalParameters(layout) ==
    LET r == Ranges(layout) IN
       [n \in Indices(r.constants) |-> [kind |-> "constants", ranges |-> OneRegister(r.constants[n], r.space)]]
    \o [n \in Indices(r.volatiles) |-> [kind |-> "descriptor", ranges |-> OneRegister(r.volatiles[n], r.space)]]
    \o (IF r.size.samplers > 0 THEN <<[kind |-> "samplers", ranges |-> r.ranges.samplers]>> ELSE <<>>)
    \o (IF r.size.others > 0 THEN <<[kind |-> "others", ranges |-> r.ranges.others]>> ELSE <<>>)

BindlessParameters(layout) ==
    IF layout.mutable THEN <<>>
    ELSE <<[kind |-> "table", ranges |-> [j \in Indices(layout.spaces) |-> UnboundedRange(layout.spaces[j], layout.capacity)]]>>

RootParameters(layout) == IF layout.bindless THEN BindlessParameters(layout) ELSE LocalParameters(layout)

(* buildRootSignature: where the parameters of each layout begin. *)
ParameterOffset(layouts, i) ==
    FoldLeft(LAMBDA n, l : n + Len(RootParameters(l)), 0, SubSeq(layouts, 1, i - 1))

(* The places of a register among the root parameters: <<parameter, offset>>. *)
Covers(range, class, space, register) ==
    /\ range.class = class
    /\ range.space = space
    /\ range.base <= register
    /\ register < range.base + range.count
PlacesOf(layouts, allStages, stage, class, space, register) ==
    UNION {UNION {{<<ParameterOffset(layouts, i) + p, range.offset + register - range.base>> :
                        range \in {x \in ToSet(RootParameters(layouts[i])[p].ranges) : Covers(x, class, space, register)}} :
                  p \in Indices(RootParameters(layouts[i]))} :
           i \in {j \in Indices(layouts) : stage \in ShaderVisibility(layouts[j], allStages)}}

---------------------------------------------------------------------------
(* BindingSet::createDescriptors                                            *)

Matches(range, b) ==
    CASE range.class = "CB" -> b.type = "ConstantBuffer"
      [] range.class = "Sampler" -> b.type = "Sampler"
      [] OTHER -> Class(b.type) = range.class

Found(bindings, range, register) ==
    {n \in Indices(bindings) :
        bindings[n].slot + bindings[n].element = register /\ Matches(range, bindings[n])}

(* The first item of the set at this register; null without one. *)
DescriptorFor(bindings, range, register) ==
    LET found == Found(bindings, range, register) IN
    IF found = {} THEN Null
    ELSE bindings[CHOOSE n \in found : \A m \in found : n <= m].resource

(* The descriptors of a table, by their offset. *)
TableContents(bindings, ranges, size) ==
    [offset \in 0..(size - 1) |->
        LET k == CHOOSE k \in Indices(ranges) :
                    ranges[k].offset <= offset /\ offset < ranges[k].offset + ranges[k].count
        IN  DescriptorFor(bindings, ranges[k], ranges[k].base + offset - ranges[k].offset)]

VolatileFor(bindings, slot) ==
    LET found == {n \in Indices(bindings) :
                    bindings[n].type = "VolatileConstantBuffer" /\ bindings[n].slot = slot}
    IN  IF found = {} THEN Null ELSE bindings[CHOOSE n \in found : \A m \in found : n <= m].resource

(* What each root parameter of the layout is bound to: a table, or the one
   register of a root descriptor. *)
D3D12BindingSet(layout, bindings) ==
    LET r == Ranges(layout) IN
    [p \in Indices(LocalParameters(layout)) |->
        LET param == LocalParameters(layout)[p] IN
        CASE param.kind = "constants"  -> [o \in {0} |-> Null]
          [] param.kind = "descriptor" -> [o \in {0} |-> VolatileFor(bindings, param.ranges[1].base)]
          [] param.kind = "samplers"   -> TableContents(bindings, r.ranges.samplers, r.size.samplers)
          [] param.kind = "others"     -> TableContents(bindings, r.ranges.others, r.size.others)]

(* writeDescriptorTable: one descriptor, seen through every space. *)
D3D12WriteTable(table, b) == [table EXCEPT ![b.slot] = IF b.type = "None" THEN Null ELSE b.resource]

---------------------------------------------------------------------------
(* Setting the state: the arguments of the root parameters.                 *)

D3D12RootArguments(layouts, sets) ==
    LET arguments(i) ==
            IF layouts[i].bindless
            THEN [p \in Indices(RootParameters(layouts[i])) |-> sets[i]]
            ELSE sets[i]
    IN  FoldLeft(LAMBDA args, i : args \o arguments(i), <<>>, [i \in Indices(layouts) |-> i])

(* setPushConstants writes the constants of the last layout that has some. *)
PushConstantsParameter(layouts) ==
    LET with == {i \in Regular(layouts) : ItemsOf(layouts[i], "PushConstants") # {}} IN
    IF with = {} THEN 0 ELSE 1 + ParameterOffset(layouts, CHOOSE i \in with : \A j \in with : j <= i)

SetRootConstants(layouts, arguments, data) ==
    LET p == PushConstantsParameter(layouts) IN
    IF p = 0 THEN arguments ELSE [arguments EXCEPT ![p] = [o \in {0} |-> data]]
=============================================================================
