--------------------------- MODULE ResourceMount ---------------------------
(***************************************************************************)
(* The runtime's side of a published tree: open_bundle and mount_package   *)
(* (src/common/th3ds.cpp) on the packages the bundle declares.             *)
(***************************************************************************)
EXTENDS ResourceTree

MiB == 1024 * 1024
kMaximumJsonBytes == MiB

(* memory_telemetry.hpp: the runtime's caps, one per pool.                 *)
resource_pool_limit ==
    [audio |-> 3 * MiB, sprite |-> 8 * MiB, texture |-> 6 * MiB,
     language_font |-> 3 * MiB, metadata |-> MiB, scratch |-> MiB]

(* A descriptor in memory is larger than the entry it is read from; the    *)
(* bundle manifest names two packages.                                     *)
ASSUME MountAssumption ==
    INDEX_ENTRY_SIZE <= DescriptorSize /\ BundleSize \in 1..kMaximumJsonBytes

kind_allowed_in_role(role, kind) ==
    LET languageKinds == {"LANGUAGE_BUNDLE", "FONT_ATLAS", "FONT_MAP"}
    IN (role = "language") = (kind \in languageKinds)
dependency_kind_allowed(kind, target) ==
    <<kind, target>> \in {<<"FONT_MAP", "FONT_ATLAS">>, <<"SPRITE_SHEET", "PALETTE">>,
                          <<"UI_BITMAP", "PALETTE">>, <<"OPAQUE_BLOB", "OPAQUE_BLOB">>}
resource_contract_allowed(role, e) ==
    /\ kind_allowed_in_role(role, e.kind) /\ e.group # 0
    /\ (e.kind \in {"AUDIO_BANK", "SPRITE_SHEET"}) = ("STREAMABLE" \in e.flags)
    /\ e.align = (IF e.kind = "AUDIO_BANK" THEN AUDIO_ALIGNMENT ELSE DEFAULT_ALIGNMENT)
    /\ "PIN_ON_MOUNT" \in e.flags =>
          e.kind \in {"UI_BITMAP", "LANGUAGE_BUNDLE", "FONT_ATLAS", "FONT_MAP"}

(* Every resource is in the one group its entry names.                     *)
GroupsCover(p) ==
    /\ \A g \in p.manifest.groups : \A i \in g.resource_ids :
          i \in DOMAIN p.index /\ p.index[i].group = g.id
    /\ \A g, h \in p.manifest.groups : g.id = h.id => g = h
    /\ UNION {g.resource_ids : g \in p.manifest.groups} = DOMAIN p.index

CeilingsHold(p) == \A g \in p.manifest.groups : g.decoded_ceiling <= MAX_STORED_BYTES

(* The manifest fits the reader, the metadata and the index together too.  *)
ManifestReadable(p) == p.manifestSize <= kMaximumJsonBytes
IndexReadable(p) == p.metadataSize + p.count * INDEX_ENTRY_SIZE <= kMaximumJsonBytes

(* What the writer leaves unchecked besides: a group needs a member, no    *)
(* budget that is declared may exceed the runtime's cap, the descriptors   *)
(* count against the declared metadata budget, and the intervals are       *)
(* sorted by their begin alone, so that of two with one begin either may   *)
(* come first.                                                             *)
GroupsPopulated(p) == \A g \in p.manifest.groups : g.resource_ids # {}
BudgetsWithinCaps(p) ==
    \A pool \in Pools : p.manifest.budgets[pool] <= resource_pool_limit[pool]
RetainedMetadata(p) == p.metadataSize + p.count * DescriptorSize
CatalogFits(p) == RetainedMetadata(p) <= p.manifest.budgets.metadata
IntervalsDisjoint(p) ==
    \A i, j \in DOMAIN p.index :
        i # j /\ p.index[i].offset <= p.index[j].offset
            => p.index[i].offset + p.index[i].size <= p.index[j].offset

mount_package(file, row, source) ==
    LET p == file.body
    IN /\ p.role = row.role /\ p.size = row.size
       /\ RegionsHold(p) /\ p.source = source
       /\ file.container_sha256 = container_hash(file)
       /\ file.container_sha256 = row.container_sha256
       /\ ManifestHolds(p) /\ p.manifest.id = row.package_id
       /\ \A i \in DOMAIN p.index :
             EntryHolds(p, i) /\ resource_contract_allowed(p.role, p.index[i])
             /\ i \notin p.index[i].deps
       /\ ManifestReadable(p) /\ IndexReadable(p) /\ IntervalsDisjoint(p)
       /\ p.catalog_sha256 = p.index /\ p.payload_sha256 = p.payload
       /\ p.manifest.catalog_sha256 = p.catalog_sha256
       /\ p.manifest.payload_sha256 = p.payload_sha256
       /\ BudgetsWithinCaps(p) /\ CatalogFits(p)
       /\ GroupsPopulated(p) /\ CeilingsHold(p) /\ GroupsCover(p)

(* One core and one language package; the language depends on that core;   *)
(* every resource dependency is mounted, of an allowed kind and in a group *)
(* that lives at least as long.                                            *)
validate_mounted_family(core, language) ==
    LET c == core.body
        l == language.body
        entry(i) == IF i \in DOMAIN c.index THEN c.index[i] ELSE l.index[i]
        ids == DOMAIN c.index \cup DOMAIN l.index
    IN /\ c.manifest.id # l.manifest.id /\ DOMAIN c.index \cap DOMAIN l.index = {}
       /\ c.role = "core" /\ l.role = "language"
       /\ Cardinality({i \in DOMAIN l.index : l.index[i].kind = "LANGUAGE_BUNDLE"}) = 1
       /\ c.manifest.dependencies = {}
       /\ l.manifest.dependencies =
             {[package_id |-> c.manifest.id, container_sha256 |-> core.container_sha256]}
       /\ \A i \in ids : \A d \in entry(i).deps :
             /\ d \in ids /\ entry(d).group <= entry(i).group
             /\ dependency_kind_allowed(entry(i).kind, entry(d).kind)

open_bundle(tree) ==
    /\ DOMAIN tree = {"bundle", "core", "language"}
    /\ BundleSize \in 1..kMaximumJsonBytes
    /\ inspect_bundle(tree["bundle"])
    /\ LET value == tree["bundle"].value
       IN /\ \A p \in {"core", "language"} :
                mount_package(tree[p], value.packages[p], value.source)
          /\ validate_mounted_family(tree["core"], tree["language"])
    /\ RetainedMetadata(tree["core"].body) + RetainedMetadata(tree["language"].body)
          <= resource_pool_limit.metadata

-----------------------------------------------------------------------------
(* Whatever was edited while the converter ran and wherever it stopped,    *)
(* the tree at the output path is one the runtime mounts whole (th3ds.cpp  *)
(* 810-1424, 1470-1686): both packages of the files that were read first,  *)
(* each as the bundle names it, the language bound to that core.  What the *)
(* converter does not check is assumed of the tree: no package declares a  *)
(* budget above the runtime's cap, manifests and catalogs fit with their   *)
(* descriptors, no group of the core and no payload is empty.              *)
Mountable(tree) ==
    /\ \A f \in {"core", "language"} :
          LET p == tree[f].body
          IN /\ BudgetsWithinCaps(p) /\ ManifestReadable(p) /\ CatalogFits(p)
             /\ \A i \in DOMAIN p.index : p.index[i].size # 0
    /\ GroupsPopulated(tree["core"].body)
    /\ RetainedMetadata(tree["core"].body) + RetainedMetadata(tree["language"].body)
          <= resource_pool_limit.metadata
PublishedMounts == stage = "done" /\ Mountable(published) => open_bundle(published)
=============================================================================
