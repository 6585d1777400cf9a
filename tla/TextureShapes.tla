---------------------------- MODULE TextureShapes ----------------------------
(***************************************************************************)
(* Shapes of textures: which descriptions the validation layer lets        *)
(* through, what image or resource each backend asks its API for, and what *)
(* the API accepts (external: the rules of vkCreateImage and               *)
(* CreateCommittedResource a valid description can meet).                  *)
(***************************************************************************)
EXTENDS Naturals, FiniteSets, FiniteSetsExt

CONSTANTS
    WordSize        \* bound: 16-bit fields count modulo this, 2^16 in the code

Dimensions1D == {"Texture1D", "Texture1DArray"}
DimensionsCube == {"TextureCube", "TextureCubeArray"}
DimensionsMS == {"Texture2DMS", "Texture2DMSArray"}
Dimensions2D == {"Texture2D", "Texture2DArray"} \cup DimensionsCube \cup DimensionsMS
Dimensions == Dimensions1D \cup Dimensions2D \cup {"Texture3D"}

(* DeviceWrapper::createTexture *)
ValidTexture(d) ==
    /\ d.dimension \in Dimensions
    /\ 0 \notin {d.width, d.height, d.depth, d.arraySize, d.mipLevels}
    /\ d.dimension \in Dimensions1D => d.height = 1
    /\ d.dimension # "Texture3D" => d.depth = 1
    /\ d.dimension \in {"Texture1D", "Texture2D", "Texture2DMS", "Texture3D"} => d.arraySize = 1
    /\ d.dimension = "TextureCube" => d.arraySize = 6
    /\ d.dimension = "TextureCubeArray" => d.arraySize % 6 = 0
    /\ IF d.dimension \in DimensionsMS THEN d.sampleCount \in {2, 4, 8} /\ ~d.isUAV ELSE d.sampleCount = 1
    /\ d.keepInitialState => d.initialState # "Unknown"

(* fillTextureInfo *)
ImageInfo(d) == [
    type |-> IF d.dimension \in Dimensions1D THEN 1 ELSE IF d.dimension \in Dimensions2D THEN 2 ELSE 3,
    width |-> d.width, height |-> d.height, depth |-> d.depth,
    arrayLayers |-> d.arraySize, mipLevels |-> d.mipLevels, samples |-> d.sampleCount,
    cube |-> d.dimension \in DimensionsCube, storage |-> d.isUAV]

(* convertTextureDesc *)
ResourceDesc(d) == [
    type |-> IF d.dimension \in Dimensions1D THEN 1 ELSE IF d.dimension \in Dimensions2D THEN 2 ELSE 3,
    width |-> d.width, height |-> d.height,
    depthOrArraySize |-> (IF d.dimension = "Texture3D" THEN d.depth ELSE d.arraySize) % WordSize,
    mipLevels |-> d.mipLevels % WordSize, samples |-> d.sampleCount, storage |-> d.isUAV]

FullChain(extents) == Cardinality({k \in 0..16 : 2 ^ k <= Max(extents)})

(* vkCreateImage *)
VulkanAccepts(i) ==
    /\ i.type = 1 => i.height = 1
    /\ i.type < 3 => i.depth = 1
    /\ i.type = 3 => i.arrayLayers = 1
    /\ i.arrayLayers > 0 /\ i.mipLevels \in 1..FullChain({i.width, i.height, i.depth})
    /\ i.cube => i.type = 2 /\ i.width = i.height /\ i.arrayLayers % 6 = 0
    /\ i.samples > 1 => i.type = 2 /\ ~i.cube /\ i.mipLevels = 1

(* CreateCommittedResource, CreateReservedResource, CreatePlacedResource *)
D3D12Accepts(r) ==
    LET depth == IF r.type = 3 THEN r.depthOrArraySize ELSE 1 IN
    /\ r.type = 1 => r.height = 1
    /\ r.depthOrArraySize > 0
    /\ r.mipLevels \in 1..FullChain({r.width, r.height, depth})
    /\ r.samples > 1 => r.type = 2 /\ r.mipLevels = 1 /\ ~r.storage

(* What valid descriptions leave open: a chain longer than the texture has mips
   (TooManyMips), multisampled textures with mips (MultisampledMips), cubes of
   unequal sides (FlatCubes), and sizes that do not fit 16 bits (LongArrays). *)
Flaws(d) ==
    (IF d.mipLevels > FullChain({d.width, d.height, d.depth}) THEN {"TooManyMips"} ELSE {})
    \cup (IF d.sampleCount > 1 /\ d.mipLevels > 1 THEN {"MultisampledMips"} ELSE {})
    \cup (IF d.dimension \in DimensionsCube /\ d.width # d.height THEN {"FlatCubes"} ELSE {})
    \cup (IF Max({d.depth, d.arraySize}) >= WordSize THEN {"LongArrays"} ELSE {})

(* The shape a D3D12 resource gets is the shape asked for. *)
SameShape(d, r) == r.depthOrArraySize = (IF d.dimension = "Texture3D" THEN d.depth ELSE d.arraySize)
Accepted(api, d) ==
    IF api = "VULKAN" THEN VulkanAccepts(ImageInfo(d))
    ELSE D3D12Accepts(ResourceDesc(d)) /\ SameShape(d, ResourceDesc(d))
=============================================================================
