------------------------- MODULE ResourceContainer -------------------------
(***************************************************************************)
(* A TH3DSR1 package, written by build_package and checked again by        *)
(* inspect_package (tools/th3ds_container.py).  The writer lays out the    *)
(* metadata and then the payloads, one resource at a time in the order of  *)
(* their identifiers; both loops are steps here, over the format's own     *)
(* sizes and alignments.                                                   *)
(*                                                                         *)
(* A resource is [id, kind, group, flags, align, size, decoded, meta,      *)
(* deps, body]: sizes are byte counts, meta that of the metadata with its  *)
(* dependency identifiers, body stands for the stored bytes.  A digest is  *)
(* the value it is a digest of.  Bytes nothing is laid on are zero.        *)
(***************************************************************************)
EXTENDS Integers, FiniteSets

VARIABLES
    request,    \* build_package's arguments, with the size of its manifest
    phase,      \* "idle", "metadata", "data" or "built"
    rows,       \* the prepared resources by identifier
    metaAt,     \* offset of the metadata of the resources laid out so far
    metaEnd,    \* length of the metadata region so far
    dataAt,     \* absolute offset of the payloads laid out so far
    dataEnd,    \* absolute end of the data region so far
    package     \* the finished package

containerVars == <<request, phase, rows, metaAt, metaEnd, dataAt, dataEnd, package>>

HEADER_SIZE == 256
INDEX_ENTRY_SIZE == 128
DEFAULT_ALIGNMENT == 64
AUDIO_ALIGNMENT == 4096
MAX_RESOURCES == 65535
MAX_STORED_BYTES == 64 * 1024 * 1024
MAX_METADATA_BYTES == 1024 * 1024
PACKAGE_ROLES == {"core", "language", "level"}
RESOURCE_KINDS == {"AUDIO_BANK", "LANGUAGE_BUNDLE", "SPRITE_SHEET", "UI_BITMAP",
                   "FONT_ATLAS", "FONT_MAP", "PALETTE", "OPAQUE_BLOB"}
KNOWN_FLAGS == {"REQUIRED", "PIN_ON_MOUNT", "STREAMABLE"}

align_up(value, alignment) == ((value + alignment - 1) \div alignment) * alignment
package_id(role, name, source) == <<role, name, source>>

(* The container digest covers everything but itself.                      *)
container_hash(p) == p.body
Sealed(body) == [body |-> body, container_sha256 |-> body]

Empty == [i \in {} |-> 0]
Extend(f, i, v) == [j \in DOMAIN f \cup {i} |-> IF j = i THEN v ELSE f[j]]

-----------------------------------------------------------------------------
(* build_package.                                                          *)

(* What the first loop demands of one resource; an identifier is a 16-byte *)
(* number.                                                                 *)
Acceptable(r) ==
    /\ r.id \in Nat /\ r.kind \in RESOURCE_KINDS /\ r.flags \subseteq KNOWN_FLAGS
    /\ r.align \in {DEFAULT_ALIGNMENT, AUDIO_ALIGNMENT}
    /\ r.size \in 0..MAX_STORED_BYTES /\ r.decoded \in 0..MAX_STORED_BYTES
    /\ r.meta \in 0..MAX_METADATA_BYTES
    /\ 16 * Cardinality(r.deps) \in 0..r.meta

Preparable(req) ==
    /\ req.role \in PACKAGE_ROLES
    /\ req.resources # {} /\ Cardinality(req.resources) \in 1..MAX_RESOURCES
    /\ \A r \in req.resources : Acceptable(r)
    /\ \A r, s \in req.resources : r.id = s.id => r = s
    /\ req.manifest \in Nat

ContainerInit ==
    /\ request = [role |-> "none"] /\ phase = "idle" /\ rows = Empty
    /\ metaAt = Empty /\ metaEnd = 0 /\ dataAt = Empty /\ dataEnd = 0
    /\ package = Sealed([role |-> "none"])

Begin(req) ==
    /\ phase \in {"idle", "built"} /\ Preparable(req)
    /\ request' = req /\ phase' = "metadata"
    /\ rows' = [i \in {r.id : r \in req.resources} |->
                    CHOOSE r \in req.resources : r.id = i]
    /\ metaAt' = Empty /\ metaEnd' = 0 /\ dataAt' = Empty /\ dataEnd' = 0
    /\ UNCHANGED package

(* The next resource in identifier order that a loop has not laid out.     *)
IsNext(i, done) ==
    /\ i \in DOMAIN rows \ done
    /\ \A j \in DOMAIN rows \ done : i <= j

LayMetadata ==
    /\ phase = "metadata"
    /\ \E i \in DOMAIN rows :
          /\ IsNext(i, DOMAIN metaAt)
          /\ metaAt' = Extend(metaAt, i, metaEnd)
          /\ metaEnd' = metaEnd + rows[i].meta
    /\ UNCHANGED <<request, phase, rows, dataAt, dataEnd, package>>

IndexOffset == align_up(HEADER_SIZE + request.manifest, DEFAULT_ALIGNMENT)
IndexSize == Cardinality(request.resources) * INDEX_ENTRY_SIZE
MetadataOffset == align_up(IndexOffset + IndexSize, DEFAULT_ALIGNMENT)
DataOffset == align_up(MetadataOffset + metaEnd, DEFAULT_ALIGNMENT)

PlaceRegions ==
    /\ phase = "metadata" /\ DOMAIN metaAt = DOMAIN rows
    /\ phase' = "data" /\ dataEnd' = DataOffset
    /\ UNCHANGED <<request, rows, metaAt, metaEnd, dataAt, package>>

\* MUTANT: the alignment counts from the start of the region, not of the file.
LayData_InRegion ==
    /\ phase = "data"
    /\ \E i \in DOMAIN rows :
          LET aligned == DataOffset + align_up(dataEnd - DataOffset, rows[i].align)
          IN /\ IsNext(i, DOMAIN dataAt)
             /\ dataAt' = Extend(dataAt, i, aligned)
             /\ dataEnd' = aligned + rows[i].size
    /\ UNCHANGED <<request, phase, rows, metaAt, metaEnd, package>>

LayData ==
    /\ phase = "data"
    /\ \E i \in DOMAIN rows :
          LET aligned == align_up(dataEnd, rows[i].align)
          IN /\ IsNext(i, DOMAIN dataAt)
             /\ dataAt' = Extend(dataAt, i, aligned)
             /\ dataEnd' = aligned + rows[i].size
    /\ UNCHANGED <<request, phase, rows, metaAt, metaEnd, package>>

Index == [i \in DOMAIN rows |->
            [kind |-> rows[i].kind, flags |-> rows[i].flags, group |-> rows[i].group,
             align |-> rows[i].align, offset |-> dataAt[i], size |-> rows[i].size,
             metaAt |-> metaAt[i], metaSize |-> rows[i].meta, deps |-> rows[i].deps,
             stored_sha256 |-> rows[i].body]]
Payload == [i \in DOMAIN rows |-> <<dataAt[i], rows[i].body>>]

(* The file without its own digest.                                        *)
Unsealed ==
    [role |-> request.role, source |-> request.source,
     manifestAt |-> HEADER_SIZE, manifestSize |-> request.manifest,
     indexAt |-> IndexOffset, count |-> Cardinality(request.resources),
     metadataAt |-> MetadataOffset, metadataSize |-> metaEnd,
     dataAt |-> DataOffset, dataSize |-> dataEnd - DataOffset, size |-> dataEnd,
     index |-> Index, payload |-> Payload,
     catalog_sha256 |-> Index, payload_sha256 |-> Payload,
     manifest |-> [role |-> request.role, name |-> request.name, source |-> request.source,
                   id |-> package_id(request.role, request.name, request.source),
                   count |-> Cardinality(request.resources), groups |-> request.groups,
                   dependencies |-> request.dependencies, budgets |-> request.budgets,
                   catalog_sha256 |-> Index, payload_sha256 |-> Payload]]

Seal ==
    /\ phase = "data" /\ DOMAIN dataAt = DOMAIN rows
    /\ package' = Sealed(Unsealed) /\ phase' = "built"
    /\ UNCHANGED <<request, rows, metaAt, metaEnd, dataAt, dataEnd>>

ContainerStep == LayMetadata \/ PlaceRegions \/ LayData \/ Seal

-----------------------------------------------------------------------------
(* inspect_package.                                                        *)
RegionsHold(p) ==
    /\ \A offset \in {p.manifestAt, p.indexAt, p.metadataAt, p.dataAt} :
          offset % DEFAULT_ALIGNMENT = 0
    /\ HEADER_SIZE <= p.manifestAt
    /\ p.manifestAt + p.manifestSize <= p.indexAt
    /\ p.indexAt + p.count * INDEX_ENTRY_SIZE <= p.metadataAt
    /\ p.metadataAt + p.metadataSize <= p.dataAt
    /\ p.dataAt + p.dataSize = p.size

ManifestHolds(p) ==
    /\ p.manifest.role = p.role /\ p.manifest.source = p.source
    /\ p.manifest.id = package_id(p.role, p.manifest.name, p.manifest.source)
    /\ p.manifest.count = p.count

EntryHolds(p, i) ==
    LET e == p.index[i]
    IN /\ e.kind \in RESOURCE_KINDS /\ e.flags \subseteq KNOWN_FLAGS
       /\ e.align \in {DEFAULT_ALIGNMENT, AUDIO_ALIGNMENT}
       /\ e.offset % e.align = 0 /\ p.dataAt <= e.offset
       /\ e.offset + e.size <= p.dataAt + p.dataSize
       /\ e.metaAt + e.metaSize <= p.metadataSize
       /\ 16 * Cardinality(e.deps) <= e.metaSize
       /\ p.payload[i] = <<e.offset, e.stored_sha256>>

(* The scan over the payload intervals sorted by start, then end.          *)
PayloadsDisjoint(p) ==
    \A i, j \in DOMAIN p.index :
        LET a == p.index[i]
            b == p.index[j]
        IN i # j /\ (\/ a.offset < b.offset
                     \/ a.offset = b.offset /\ a.size <= b.size)
               => a.offset + a.size <= b.offset

DigestsHold(p) ==
    /\ p.catalog_sha256 = p.index /\ p.payload_sha256 = p.payload
    /\ p.manifest.catalog_sha256 = p.catalog_sha256
    /\ p.manifest.payload_sha256 = p.payload_sha256

inspect_package(file) ==
    LET p == file.body
    IN /\ p.role \in PACKAGE_ROLES /\ p.count \in 1..MAX_RESOURCES
       /\ RegionsHold(p) /\ ManifestHolds(p)
       /\ \A i \in DOMAIN p.index : EntryHolds(p, i)
       /\ PayloadsDisjoint(p) /\ DigestsHold(p)
       /\ file.container_sha256 = container_hash(file)

-----------------------------------------------------------------------------
(* Whatever resources a package was asked for, with whatever sizes and     *)
(* alignments, the layout the writer arrives at is one the inspector       *)
(* accepts: regions and payloads in bounds, aligned and disjoint, metadata *)
(* where the index says it is, every digest that of the bytes it covers.   *)
WriterMeetsInspector == phase = "built" => inspect_package(package)
=============================================================================
