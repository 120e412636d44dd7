---------------------------- MODULE ResourceTree ----------------------------
(***************************************************************************)
(* The converter (build_resource_tree of tools/th3ds_convert.py): it reads *)
(* the game and language files once for the source-set fingerprint and a   *)
(* second time to convert them, builds the core and the language package,  *)
(* writes them with the bundle manifest into a temporary directory, reads  *)
(* them back, inspects them and renames the directory into place.  The     *)
(* files may be edited between any two reads, somebody else may create the *)
(* output, and the converter may raise or be killed anywhere.              *)
(* open_bundle (src/common/th3ds.cpp) mounts what was published.           *)
(*                                                                         *)
(* A source file is its version.  One sprite pair, one image and one glyph *)
(* atlas stand for the converter's lists of them.                          *)
(***************************************************************************)
EXTENDS ResourceContainer, Sequences

CONSTANTS
    MaxChanges,         \* bound: edits of the source files in a behaviour
    Stored, Decoded,    \* bytes a version of an input converts to
    MetaSize,           \* metadata bytes of a resource kind, dependencies aside
    IdOf,               \* identifier of the one resource of a kind
    ManifestSizes,      \* sizes a package manifest may have
    BundleSize,         \* size of the bundle manifest
    Budgets,            \* the converter's budgets: its command line may give any
    DescriptorSize,     \* bytes the runtime keeps per resource
    Absent,             \* no file
    Nobody, EmptyDirectory, ForeignFiles    \* what else may be at the output path

(* The pools whose budgets a package declares.                             *)
Pools == {"audio", "sprite", "texture", "language_font", "metadata", "scratch"}

ASSUME TreeAssumption ==
    /\ MaxChanges \in Nat /\ ManifestSizes \subseteq Nat
    /\ DescriptorSize \in Nat /\ \A b \in Pools \cup {"output"} : Budgets[b] \in Nat
    /\ {"AUDIO_BANK", "SPRITE_SHEET", "UI_BITMAP", "LANGUAGE_BUNDLE", "FONT_ATLAS",
         "FONT_MAP"} \subseteq DOMAIN IdOf
    /\ \A k, l \in DOMAIN IdOf : IdOf[k] = IdOf[l] => k = l

VARIABLES
    game,       \* version of every source file, or Absent
    changes,    \* edits so far
    stage,      \* where build_resource_tree is
    records,    \* the versions that entered the source-set fingerprint
    converted,  \* the versions that were converted
    built,      \* the packages in memory, by path
    staged,     \* the temporary directory
    published   \* what is at the output path

treeVars == <<game, changes, stage, records, converted, built, staged, published>>

Scan == <<"image", "sprite", "sound", "language", "glyph">>
Conversion == <<"sound", "sprite", "image", "language", "glyph">>
Inputs == {Scan[i] : i \in DOMAIN Scan}
Paths == <<"core", "language", "bundle">>

None == [x \in {} |-> Absent]
Put(f, x, v) == [y \in DOMAIN f \cup {x} |-> IF y = x THEN v ELSE f[y]]
Following(f, order) == order[Cardinality(DOMAIN f) + 1]
Present(f) == converted[f] # Absent

TreeInit ==
    /\ game \in [Inputs -> {0, Absent}] /\ game["sound"] = 0 /\ game["language"] = 0
    /\ changes = 0 /\ stage = "scan" /\ records = None /\ converted = None
    /\ built = None /\ staged = None /\ published = Nobody

Refuse == stage' = "refused" /\ staged' = None

-----------------------------------------------------------------------------
(* The fingerprint and the conversion: read_stable sees one version of a   *)
(* file.  Sound and language must be there when they are converted; what   *)
(* sprites and images there are is looked up again.                        *)
Fingerprint ==
    /\ stage = "scan"
    /\ LET f == Following(records, Scan)
       IN records' = Put(records, f, game[f])
    /\ stage' = IF DOMAIN records' = Inputs THEN "convert" ELSE "scan"
    /\ UNCHANGED <<game, changes, converted, built, staged, published, containerVars>>

Convert ==
    /\ stage = "convert"
    /\ LET f == Following(converted, Conversion)
       IN IF f \in {"sound", "language"} /\ game[f] = Absent
          THEN Refuse /\ UNCHANGED converted
          ELSE /\ converted' = Put(converted, f, game[f])
               /\ stage' = IF DOMAIN converted' = Inputs THEN "budgets" ELSE "convert"
               /\ UNCHANGED staged
    /\ UNCHANGED <<game, changes, records, built, published, containerVars>>

DecodedSize(f) == IF Present(f) THEN Decoded[f][converted[f]] ELSE 0
StoredSize(f) == Stored[f][converted[f]]

_check_budgets ==
    /\ DecodedSize("sound") <= Budgets.audio
    /\ Present("sprite") =>
          /\ DecodedSize("sprite") <= Budgets.sprite
          /\ DecodedSize("sprite") + StoredSize("sprite") <= Budgets.scratch
    /\ DecodedSize("image") <= Budgets.texture
    /\ DecodedSize("language") + DecodedSize("glyph") <= Budgets.language_font

-----------------------------------------------------------------------------
(* The packages.                                                           *)
Resource(kind, f, group, flags, deps) ==
    [id |-> IdOf[kind], kind |-> kind, group |-> group, flags |-> {"REQUIRED"} \cup flags,
     align |-> IF kind = "AUDIO_BANK" THEN AUDIO_ALIGNMENT ELSE DEFAULT_ALIGNMENT,
     size |-> StoredSize(f), decoded |-> DecodedSize(f),
     meta |-> 16 * Cardinality(deps) + MetaSize[kind], deps |-> deps,
     body |-> <<kind, converted[f]>>]

Optional(kind, f, group, flags) ==
    IF Present(f) THEN {Resource(kind, f, group, flags, {})} ELSE {}
CoreResources ==
    {Resource("AUDIO_BANK", "sound", 2, {"STREAMABLE"}, {})}
        \cup Optional("SPRITE_SHEET", "sprite", 3, {"STREAMABLE"})
        \cup Optional("UI_BITMAP", "image", 1, {"PIN_ON_MOUNT"})
LanguageResources ==
    {Resource("LANGUAGE_BUNDLE", "language", 1, {"PIN_ON_MOUNT"}, {})}
        \cup Optional("FONT_ATLAS", "glyph", 1, {"PIN_ON_MOUNT"})
        \cup (IF Present("glyph")
              THEN {Resource("FONT_MAP", "glyph", 1, {"PIN_ON_MOUNT"}, {IdOf["FONT_ATLAS"]})}
              ELSE {})

_group(id, resources, ceiling) ==
    [id |-> id, resource_ids |-> {r.id : r \in {s \in resources : s.group = id}},
     decoded_ceiling |-> ceiling]

(* The digest of the sorted records.                                       *)
source_set_digest ==
    [f \in {g \in Inputs : records[g] # Absent} |-> records[f]]

(* Budgets.manifest: the output budget is the converter's own.             *)
DeclaredBudgets == [p \in Pools |-> Budgets[p]]
CoreCeilings == <<Budgets.texture, Budgets.audio, Budgets.sprite>>

CoreRequest(m) ==
    [role |-> "core", name |-> "core", source |-> source_set_digest,
     resources |-> CoreResources,
     groups |-> {_group(g, CoreResources, CoreCeilings[g]) : g \in 1..3},
     dependencies |-> {}, budgets |-> DeclaredBudgets, manifest |-> m]
\* MUTANT: the language package names the files as it read them.
LanguageRequest_Reread(m) ==
    [role |-> "language", name |-> "tag",
     source |-> [f \in DOMAIN source_set_digest |-> converted[f]],
     resources |-> LanguageResources,
     groups |-> {_group(1, LanguageResources, Budgets.language_font)},
     dependencies |-> {[package_id |-> built["core"].body.manifest.id,
                        container_sha256 |-> built["core"].container_sha256]},
     budgets |-> DeclaredBudgets, manifest |-> m]
LanguageRequest(m) ==
    [role |-> "language", name |-> "tag", source |-> source_set_digest,
     resources |-> LanguageResources,
     groups |-> {_group(1, LanguageResources, Budgets.language_font)},
     dependencies |-> {[package_id |-> built["core"].body.manifest.id,
                        container_sha256 |-> built["core"].container_sha256]},
     budgets |-> DeclaredBudgets, manifest |-> m]

BeginPackage(to, requests) ==
    /\ \E r \in requests :
          IF Preparable(r)
          THEN Begin(r) /\ stage' = to /\ UNCHANGED staged
          ELSE Refuse /\ UNCHANGED containerVars
    /\ UNCHANGED <<game, changes, records, converted, built, published>>

BeginCore ==
    /\ stage = "budgets"
    /\ IF _check_budgets
       THEN BeginPackage("core", {CoreRequest(m) : m \in ManifestSizes})
       ELSE /\ Refuse
            /\ UNCHANGED <<game, changes, records, converted, built, published>>
            /\ UNCHANGED containerVars
BeginLanguage ==
    /\ stage = "core_built"
    /\ BeginPackage("language", {LanguageRequest(m) : m \in ManifestSizes})

BuildPackage ==
    /\ stage \in {"core", "language"} /\ ContainerStep
    /\ IF phase' = "built"
       THEN /\ built' = Put(built, stage, package')
            /\ stage' = IF stage = "core" THEN "core_built" ELSE "bundle"
       ELSE UNCHANGED <<built, stage>>
    /\ UNCHANGED <<game, changes, records, converted, staged, published>>

Row(path) == [package_id |-> built[path].body.manifest.id, role |-> built[path].body.role,
              size |-> built[path].body.size,
              container_sha256 |-> built[path].container_sha256]
BundleValue ==
    [source |-> source_set_digest, packages |-> [p \in {"core", "language"} |-> Row(p)]]
build_bundle_manifest == [value |-> BundleValue, bundle_sha256 |-> BundleValue]
inspect_bundle(bundle) ==
    LET rows_ == bundle.value.packages
    IN /\ bundle.bundle_sha256 = bundle.value
       /\ \A p, q \in DOMAIN rows_ : p # q => rows_[p].package_id # rows_[q].package_id
       /\ \A p \in DOMAIN rows_ : rows_[p].role \in PACKAGE_ROLES /\ rows_[p].size > 0

Bundle ==
    /\ stage = "bundle"
    /\ IF /\ BundleSize + built["core"].body.size + built["language"].body.size
                <= Budgets.output
          /\ \A p \in {"core", "language"} :
                built[p].body.metadataSize <= Budgets.metadata
          /\ published = Nobody     \* atomic_directory looks before it starts
       THEN /\ built' = Put(built, "bundle", build_bundle_manifest)
            /\ stage' = "write" /\ UNCHANGED staged
       ELSE Refuse /\ UNCHANGED built
    /\ UNCHANGED <<game, changes, records, converted, published, containerVars>>

-----------------------------------------------------------------------------
(* Publication.  A write may come back different; the readback and the     *)
(* inspection decide on what came back.                                    *)
Inspected(path, file) ==
    IF path = "bundle" THEN inspect_bundle(file) ELSE inspect_package(file)

_write_verified ==
    /\ stage = "write" /\ DOMAIN staged # DOMAIN built
    /\ LET path == Following(staged, Paths)
       IN \/ /\ Inspected(path, built[path])
             /\ staged' = Put(staged, path, built[path]) /\ UNCHANGED stage
          \/ Refuse
    /\ UNCHANGED <<game, changes, records, converted, built, published, containerVars>>

(* os.replace takes the place of nothing or of an empty directory only.    *)
Publish ==
    /\ stage = "write" /\ DOMAIN staged = DOMAIN built
    /\ IF published \in {Nobody, EmptyDirectory}
       THEN published' = staged /\ stage' = "done" /\ UNCHANGED staged
       ELSE Refuse /\ UNCHANGED published
    /\ UNCHANGED <<game, changes, records, converted, built, containerVars>>

-----------------------------------------------------------------------------
(* An unreadable, malformed or changing input, or an interrupt, at any     *)
(* stage; a kill leaves the temporary directory behind.                    *)
Fail ==
    /\ stage \notin {"done", "refused"}
    /\ stage' = "refused" /\ staged' \in {None, staged}
    /\ UNCHANGED <<game, changes, records, converted, built, published, containerVars>>

(* The files may be edited, removed or added for as long as they are read. *)
(* A glyph atlas is named by the caller: it is not added, and one that is  *)
(* missing when it is read is a case of Fail.                              *)
Change(f, version) ==
    /\ stage \in {"scan", "convert"} /\ changes < MaxChanges
    /\ changes' = changes + 1 /\ game' = [game EXCEPT ![f] = version]
    /\ UNCHANGED <<stage, records, converted, built, staged, published, containerVars>>
Edit(f) == (f = "glyph" => game[f] # Absent) /\ Change(f, changes + 1)
Remove(f) == f # "glyph" /\ game[f] # Absent /\ Change(f, Absent)

(* Somebody else creates the output directory, empty or with files.        *)
Occupy ==
    /\ stage # "done" /\ published = Nobody /\ published' \in {EmptyDirectory, ForeignFiles}
    /\ UNCHANGED <<game, changes, stage, records, converted, built, staged, containerVars>>

TreeNext ==
    \/ Fingerprint \/ Convert \/ BeginCore \/ BeginLanguage \/ BuildPackage \/ Bundle
    \/ _write_verified \/ Publish \/ Fail \/ Occupy
    \/ \E f \in Inputs : Edit(f) \/ Remove(f)

ConverterInit == TreeInit /\ ContainerInit

TreeSpec == ConverterInit /\ [][TreeNext]_<<treeVars, containerVars>>
=============================================================================
