---------------------------- MODULE BundleFormat ----------------------------
(***************************************************************************)
(* What a bundle's magic, version and platform decide: the memory types a  *)
(* resource can have, the file block each one is written to, and whether   *)
(* Save accepts the bundle.                                                *)
(***************************************************************************)
EXTENDS Integers, Sequences

\* The BND2 platforms of enum.inc. Versions outside 2..5 behave like the
\* unsupported one of the same format (4 for BND2, 2 for BNDL).
Platforms == {"PC", "Xbox360", "PS3", "PSVita", "WiiU", "PCx64"}
Format == [magic : {"bndl", "bnd2"}, version : 2..5, platform : Platforms]

\* MemoryType: GraphicsSystem, Physical and Mem1 share a slot of a resource,
\* and so do GraphicsLocal and GraphicsMem2.
Slots == 0..3
MainMemory == 0
Graphics   == 1
Graphics2  == 2
Disposable == 3

\* The bit of each flag in the 32-bit field.
FlagBit == [Compressed             |-> 0, MainMemOptimised     |-> 1,
            GraphicsMemOptimised   |-> 2, HasDebugData         |-> 3,
            NonAsynchFixupRequired |-> 4, MultistreamBundle    |-> 5,
            DeltaBundle            |-> 6, ContainsDefaultResource |-> 7]
FlagNames == DOMAIN FlagBit

IsBnd2(fmt) == fmt.magic = "bnd2"
TwoGraphicsBlocks == {"PS3", "PSVita", "WiiU"}

-----------------------------------------------------------------------------
(* Memory types and file blocks *)

BaseMemoryTypes(fmt) ==
    CASE fmt.platform \in TwoGraphicsBlocks -> {MainMemory, Graphics, Graphics2}
      [] fmt.platform = "Xbox360"           -> {MainMemory, Graphics}
      [] OTHER                              -> {MainMemory, Disposable}

MemoryTypes(fmt) ==
    IF IsBnd2(fmt) /\ fmt.version >= 3
    THEN BaseMemoryTypes(fmt) \cup {Disposable}
    ELSE BaseMemoryTypes(fmt)

\* File block b (counted from 1) holds the memory type FileBlocks(fmt)[b].
NoSlot == 4

Bnd2FileBlocks(fmt) ==
    LET late == IF fmt.version >= 3 THEN Disposable ELSE NoSlot
        all  == CASE fmt.platform \in TwoGraphicsBlocks ->
                            <<MainMemory, Graphics, Graphics2, late>>
                  [] fmt.platform = "Xbox360" ->
                            <<MainMemory, Graphics, late, NoSlot>>
                  [] OTHER  -> <<MainMemory, Disposable, NoSlot, NoSlot>>
    IN  SubSeq(all, 1, IF fmt.version >= 3 THEN 4 ELSE 3)

BndlFileBlocks(fmt) ==
    CASE fmt.platform = "Xbox360" ->
                <<MainMemory, Disposable, Graphics, NoSlot, NoSlot>>
      [] fmt.platform = "PS3" ->
                <<MainMemory, Disposable, NoSlot, NoSlot, Graphics, Graphics2>>
      [] OTHER  -> <<MainMemory, Disposable, NoSlot, NoSlot>>

FileBlocks(fmt) == IF IsBnd2(fmt) THEN Bnd2FileBlocks(fmt) ELSE BndlFileBlocks(fmt)

\* The memory types a file of this format has room for.
StoredSlots(fmt) == {FileBlocks(fmt)[b] : b \in DOMAIN FileBlocks(fmt)} \ {NoSlot}

-----------------------------------------------------------------------------
(* What Save and Load accept *)

IsValidVersion(fmt) ==
    IF IsBnd2(fmt) THEN fmt.version \in {2, 3, 5} ELSE fmt.version \in 3..5

IsValidPlatform(fmt) ==
    \/ fmt.platform \in {"PC", "Xbox360", "PS3"}
    \/ IsBnd2(fmt) /\ fmt.version >= 5 /\ fmt.platform \in {"PSVita", "WiiU"}
    \/ IsBnd2(fmt) /\ fmt.version < 5  /\ fmt.platform = "PCx64"

\* The flags each version's file can carry; the writer compares the highest
\* set bit with the format's limit.
AcceptsFlags(fmt, flags) ==
    LET below(bits, set) == \A f \in set : FlagBit[f] < bits
    IN  CASE IsBnd2(fmt) /\ fmt.version = 2 -> below(4, flags)
          [] IsBnd2(fmt) /\ fmt.version = 3 -> below(7, flags)
          [] IsBnd2(fmt) /\ fmt.version > 3 ->
                flags \cap {"MainMemOptimised", "GraphicsMemOptimised"} = {}
          [] OTHER -> /\ below(1, flags \ {"HasDebugData"})
                      /\ fmt.version > 3 \/ "Compressed" \notin flags

SaveVerdict(fmt, flags) ==
    IF ~IsValidVersion(fmt) THEN "UnsupportedVersion"
    ELSE IF ~AcceptsFlags(fmt, flags) THEN "UnsupportedFlags"
    ELSE IF ~IsValidPlatform(fmt) THEN "UnsupportedPlatform"
    ELSE "Success"
=============================================================================
