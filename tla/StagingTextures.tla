--------------------------- MODULE StagingTextures ---------------------------
(***************************************************************************)
(* Staging textures: a buffer in which each backend lays out the           *)
(* subresources of a texture.  The CPU writes and reads it through the     *)
(* pointer and row pitch mapStagingTexture returns, the GPU copies slices  *)
(* of it to and from textures.  Both should see one texture: `staged' is   *)
(* what the application put where, `buffer' the bytes.                     *)
(*                                                                         *)
(* Mapping waits for the copies of the staging texture (VulkanQueue), so   *)
(* copies are steps of their own here.                                     *)
(***************************************************************************)
EXTENDS Integers, Sequences, FiniteSets, SequencesExt, FiniteSetsExt, TLC

CONSTANTS
    Descs,              \* [dimension, width, height, depth, mipLevels, arraySize, blockSize, bytesPerBlock]
    Slices,             \* parts of a subresource that are copied: [x, y, z, width, height, depth]
    All,                \* "the rest": -1 in the code
    PitchAlignment,     \* bound: D3D12's alignment of rows, 256 bytes
    PlacementAlignment, \* bound: D3D12's alignment of subresources, 512 bytes
    OffsetSize,         \* bound: off_t counts modulo this, 2^31 on Windows
    None,
    Avoided             \* what applications avoid

VARIABLES
    api,
    desc,           \* of the staging texture and the texture it is copied to and from
    buffer,         \* byte -> value, <<>> before it is created
    staged,         \* subresource -> block -> value
    texture,        \* the same of the device texture, as the GPU left it
    copied,         \* and as the application's copies should have left it
    mapped,         \* subresource mapped, None if none is
    outside         \* something outside of the buffer was accessed

vars == <<api, desc, buffer, staged, texture, copied, mapped, outside>>

(* Avoided on Vulkan: subresources that are not a multiple of 4 bytes before
   another one (UnalignedSlices), slices that start within a row
   (CopiesWithinRow), mips smaller than a block (PartialBlocks); on D3D12,
   offsets beyond off_t (LargeOffsets). *)
Avoids(name, bad) == name \in Avoided => ~bad

AlignTo(n, a) == ((n + a - 1) \div a) * a
AtLeast1(n) == Max({n, 1})
Mip(n, mip) == AtLeast1(n \div 2 ^ mip)
Blocks(n, d) == AtLeast1((n + d.blockSize - 1) \div d.blockSize)

Subresources(d) == (0..d.mipLevels - 1) \X (0..d.arraySize - 1)
WidthInBlocks(d, mip) == Blocks(Mip(d.width, mip), d)
NumRows(d, mip) == Blocks(Mip(d.height, mip), d)
Depth(d, mip) == IF d.dimension = "Texture3D" THEN Mip(d.depth, mip) ELSE 1
BlocksOf(d, s) == (0..WidthInBlocks(d, s[1]) - 1) \X (0..NumRows(d, s[1]) - 1) \X (0..Depth(d, s[1]) - 1)
RowSize(d, mip) == WidthInBlocks(d, mip) * d.bytesPerBlock

(* TextureSlice::resolve *)
Resolve(slice, d, mip) == [slice EXCEPT
    !.width = IF @ = All THEN Mip(d.width, mip) ELSE @,
    !.height = IF @ = All THEN Mip(d.height, mip) ELSE @,
    !.depth = IF @ = All THEN Depth(d, mip) ELSE @]

---------------------------------------------------------------------------
(* Layout on Vulkan: mip by mip, the array slices of each.                  *)

AlignBufferOffset(n) == AlignTo(n, 4)
TotalBytes(d, mip) == Depth(d, mip) * NumRows(d, mip) * RowSize(d, mip)
Order(d) == [i \in 1..d.mipLevels * d.arraySize |-> <<(i - 1) \div d.arraySize, (i - 1) % d.arraySize>>]

(* computeCopyableFootprints: the offset of each slice is aligned, the sum is
   not. *)
BytesBefore(d, i) == FoldSeq(LAMBDA s, n : n + TotalBytes(d, s[1]), 0, SubSeq(Order(d), 1, i - 1))
Index(d, s) == s[1] * d.arraySize + s[2] + 1
CopyableFootprint(d, s) ==
    LET i == Index(d, s)
        mip == Order(d)[i][1]
    IN  [offset |-> AlignBufferOffset(BytesBefore(d, i)),
         rowPitch |-> RowSize(d, mip), numRows |-> NumRows(d, mip),
         width |-> Mip(d.width, mip), height |-> Mip(d.height, mip)]
VulkanSize(d) == BytesBefore(d, d.mipLevels * d.arraySize + 1)

(* computePlacedBufferOffset *)
PlacedBufferOffset(d, footprint, x, y, z) ==
    footprint.offset + (x \div d.blockSize + (y \div d.blockSize + z * footprint.numRows) * footprint.rowPitch)

(* VkBufferImageCopy, external: where it places a block of the slice. *)
ImageCopyPlace(d, footprint, slice, block) ==
    LET rowLength == Max({footprint.width, slice.width}) \div d.blockSize
        imageHeight == Max({footprint.height, slice.height}) \div d.blockSize
        column == block[1] - slice.x \div d.blockSize
        row == block[2] - slice.y \div d.blockSize + (block[3] - slice.z) * imageHeight
    IN  PlacedBufferOffset(d, footprint, slice.x, slice.y, slice.z) + (row * rowLength + column) * d.bytesPerBlock

---------------------------------------------------------------------------
(* Layout on D3D12: array slice by array slice, the mips of each.           *)

Subresource(d, s) == s[1] + s[2] * d.mipLevels

(* GetCopyableFootprints, external. *)
RowPitch(d, mip) == AlignTo(RowSize(d, mip), PitchAlignment)
FootprintSize(d, mip) == RowPitch(d, mip) * (NumRows(d, mip) * Depth(d, mip) - 1) + RowSize(d, mip)

SubresourceOffsetsPacked(d) ==                                      \* a mutant
    [i \in 0..d.mipLevels * d.arraySize - 1 |->
        FoldSeq(LAMBDA k, n : n + RowSize(d, k % d.mipLevels), 0, [k \in 1..i |-> k - 1])]
SubresourceOffsets(d) ==
    [i \in 0..d.mipLevels * d.arraySize - 1 |->
        FoldSeq(LAMBDA k, n : AlignTo(n + FootprintSize(d, k % d.mipLevels), PlacementAlignment), 0, [k \in 1..i |-> k - 1])]
SizeInBytes(d) ==
    LET last == Subresource(d, <<d.mipLevels - 1, d.arraySize - 1>>)
    IN  SubresourceOffsets(d)[last] + FootprintSize(d, d.mipLevels - 1)
(* getSliceRegion *)
SliceRegion(d, s) ==
    LET offset == SubresourceOffsets(d)[Subresource(d, s)]
    IN  [footprint |-> offset, offset |-> offset % OffsetSize]

---------------------------------------------------------------------------
(* What the CPU and the GPU see.                                            *)

(* createBuffer enlarges small buffers on Vulkan. *)
Size(d) == IF api = "VULKAN" THEN AlignTo(VulkanSize(d), 4) ELSE SizeInBytes(d)

RegionPlace(d, s, offset, block) ==
    offset + (block[2] + block[3] * NumRows(d, s[1])) * RowPitch(d, s[1]) + block[1] * d.bytesPerBlock
CpuPlace(d, s, block) ==
    IF api = "VULKAN"
    THEN LET f == CopyableFootprint(d, s)
         IN  f.offset + (block[2] + block[3] * f.numRows) * f.rowPitch + block[1] * d.bytesPerBlock
    ELSE RegionPlace(d, s, SliceRegion(d, s).offset, block)
GpuPlace(d, s, slice, block) ==
    IF api = "VULKAN" THEN ImageCopyPlace(d, CopyableFootprint(d, s), slice, block)
    ELSE RegionPlace(d, s, SliceRegion(d, s).footprint, block)

Bytes(place) == place..place + desc.bytesPerBlock - 1
Value(place) ==
    IF Bytes(place) \subseteq DOMAIN buffer /\ \A b \in Bytes(place) : buffer[b] = buffer[place]
    THEN buffer[place] ELSE None

BlocksOfSlice(d, slice) ==
    LET Span(from, n) == from \div d.blockSize..(from + n - 1) \div d.blockSize
    IN  Span(slice.x, slice.width) \X Span(slice.y, slice.height) \X (slice.z..slice.z + slice.depth - 1)

---------------------------------------------------------------------------
Blank(d) == [s \in Subresources(d) |-> [block \in BlocksOf(d, s) |-> 0]]

Init ==
    /\ api \in {"VULKAN", "D3D12"}
    /\ desc = None /\ buffer = <<>>
    /\ staged = <<>> /\ texture = <<>> /\ copied = <<>>
    /\ mapped = None /\ outside = FALSE

CreateStagingTexture(d) ==
    /\ desc = None
    /\ d.dimension = "Texture3D" => d.arraySize = 1
    /\ Avoids("UnalignedSlices", api = "VULKAN" /\ \E i \in 1..d.mipLevels * d.arraySize : BytesBefore(d, i) % 4 # 0)
    /\ Avoids("PartialBlocks", api = "VULKAN" /\ \E mip \in 0..d.mipLevels - 1 :
           \E n \in {d.width, d.height} : Mip(n, mip) % d.blockSize # 0)
    /\ Avoids("LargeOffsets", api = "D3D12" /\ \E s \in Subresources(d) : SliceRegion(d, s).footprint >= OffsetSize)
    /\ desc' = d
    /\ buffer' = [b \in 0..Size(d) - 1 |-> 0]
    /\ staged' = Blank(d) /\ texture' = Blank(d) /\ copied' = Blank(d)
    /\ UNCHANGED <<api, mapped, outside>>

MapStagingTexture(s) ==
    /\ desc # None /\ mapped = None
    /\ mapped' = s
    /\ UNCHANGED <<api, desc, buffer, staged, texture, copied, outside>>

UnmapStagingTexture ==
    /\ mapped # None
    /\ mapped' = None
    /\ UNCHANGED <<api, desc, buffer, staged, texture, copied, outside>>

Stores(values) ==           \* place -> value of the block there
    LET at(b) == {p \in DOMAIN values : b \in Bytes(p)} IN
    /\ buffer' = [b \in DOMAIN buffer |-> IF at(b) # {} THEN values[Max(at(b))] ELSE buffer[b]]
    /\ outside' = (outside \/ \E p \in DOMAIN values : ~(Bytes(p) \subseteq DOMAIN buffer))

(* The application fills what it mapped. *)
WriteMapped(v) ==
    /\ mapped # None
    /\ Stores([p \in {CpuPlace(desc, mapped, block) : block \in BlocksOf(desc, mapped)} |-> v])
    /\ staged' = [staged EXCEPT ![mapped] = [block \in DOMAIN @ |-> v]]
    /\ UNCHANGED <<api, desc, texture, copied, mapped>>

(* The slices lie at the same place of two subresources of one mip. *)
Copies(s, t, slice) ==
    /\ mapped = None
    /\ s[1] = t[1]
    /\ BlocksOfSlice(desc, slice) \subseteq BlocksOf(desc, s)
    /\ Avoids("CopiesWithinRow", api = "VULKAN" /\ slice.x > 0)

CopyToTexture(s, t, unresolved) ==
    LET slice == Resolve(unresolved, desc, s[1])
        blocks == BlocksOfSlice(desc, slice)
    IN  /\ Copies(s, t, slice)
        /\ texture' = [texture EXCEPT ![t] = [b \in blocks |-> Value(GpuPlace(desc, s, slice, b))] @@ @]
        /\ copied' = [copied EXCEPT ![t] = [b \in blocks |-> staged[s][b]] @@ @]
        /\ UNCHANGED <<api, desc, buffer, staged, mapped, outside>>

(* Vulkan copies one z at a time to a staging texture. *)
CopyToStagingTexture(s, t, unresolved) ==
    LET slice == Resolve(unresolved, desc, s[1])
        blocks == BlocksOfSlice(desc, slice)
        place(b) == GpuPlace(desc, s, slice, b)
    IN  /\ Copies(s, t, slice)
        /\ api = "VULKAN" => slice.depth = 1
        /\ Stores([p \in {place(b) : b \in blocks} |-> texture[t][CHOOSE b \in blocks : place(b) = p]])
        /\ staged' = [staged EXCEPT ![s] = [b \in blocks |-> copied[t][b]] @@ @]
        /\ UNCHANGED <<api, desc, texture, copied, mapped>>

Next ==
    \/ \E d \in Descs : CreateStagingTexture(d)
    \/ desc # None /\ \E s \in Subresources(desc) :
         \/ MapStagingTexture(s)
         \/ \E t \in Subresources(desc), slice \in Slices :
                CopyToTexture(s, t, slice) \/ CopyToStagingTexture(s, t, slice)
    \/ \E v \in {0, 1} : WriteMapped(v)
    \/ UnmapStagingTexture

Spec == Init /\ [][Next]_vars

---------------------------------------------------------------------------
(* Properties.                                                              *)

\* A staging texture is a texture: through the pointer of a map the CPU finds
\* in each block what was written or copied there last, textures get what the
\* application had put in the slices copied, and nothing is outside of the buffer.
SlicesKeepData ==
    desc # None =>
        /\ ~outside
        /\ texture = copied
        /\ \A s \in Subresources(desc) : \A b \in BlocksOf(desc, s) : Value(CpuPlace(desc, s, b)) = staged[s][b]

\* The size computeCopyableFootprints returns is the "total size in bytes of
\* upload buffer": every slice lies in it.
SizeHoldsSlices ==
    desc # None /\ api = "VULKAN" =>
        \A s \in Subresources(desc) : CopyableFootprint(desc, s).offset + TotalBytes(desc, s[1]) <= VulkanSize(desc)
=============================================================================
