------------------------- MODULE ResourceTreeProofs -------------------------
(***************************************************************************)
(* Whatever the converter asks build_package for, the container it writes  *)
(* is one inspect_package accepts.  The tree's actions touch a container   *)
(* only through Begin and the steps of the two layout loops, so the        *)
(* invariant is one of the loops: what has been laid out ends before the   *)
(* next free byte, and the next free byte is where the next one starts.    *)
(* The tree it publishes is one the runtime mounts whole: that invariant   *)
(* follows each request from what was converted to the file that is moved  *)
(* into place.                                                             *)
(***************************************************************************)
EXTENDS ResourceMount, FiniteSetTheorems, TLAPS

Alignments == {DEFAULT_ALIGNMENT, AUDIO_ALIGNMENT}

RowsHold ==
    /\ Preparable(request)
    /\ \A i \in DOMAIN rows : Acceptable(rows[i])

MetadataHolds ==
    /\ metaEnd \in Nat /\ DOMAIN metaAt \subseteq DOMAIN rows
    /\ \A i \in DOMAIN metaAt : metaAt[i] \in Nat /\ metaAt[i] + rows[i].meta <= metaEnd

PlacedHolds ==
    /\ dataEnd \in Nat /\ DataOffset <= dataEnd
    /\ DOMAIN metaAt = DOMAIN rows /\ DOMAIN dataAt \subseteq DOMAIN rows
    /\ \A i \in DOMAIN dataAt :
          /\ dataAt[i] \in Nat /\ dataAt[i] % rows[i].align = 0
          /\ DataOffset <= dataAt[i] /\ dataAt[i] + rows[i].size <= dataEnd
    /\ \A i, j \in DOMAIN dataAt :
          i # j => \/ dataAt[i] + rows[i].size <= dataAt[j]
                   \/ dataAt[j] + rows[j].size <= dataAt[i]

(* The inductive invariant, by phases.                                     *)
LayoutInv ==
    /\ phase \in {"idle", "metadata", "data", "built"}
    /\ phase # "idle" => RowsHold /\ MetadataHolds
    /\ phase = "metadata" => dataAt = Empty
    /\ phase \in {"data", "built"} => PlacedHolds
    /\ phase = "built" => DOMAIN dataAt = DOMAIN rows /\ package = Sealed(Unsealed)

-----------------------------------------------------------------------------
(* align_up rounds up to a multiple, by less than the alignment.           *)
LEMMA AlignUp ==
    ASSUME NEW v \in Nat, NEW a \in Alignments
    PROVE  /\ align_up(v, a) \in Nat /\ v <= align_up(v, a)
           /\ align_up(v, a) < v + a /\ align_up(v, a) % a = 0
<1>1. CASE a = 64
  BY <1>1 DEF align_up
<1>2. CASE a = 4096
  BY <1>2 DEF align_up
<1> QED BY <1>1, <1>2 DEF Alignments, DEFAULT_ALIGNMENT, AUDIO_ALIGNMENT

(* A count of resources is a number.                                       *)
LEMMA CountIsNat == \A n \in 1..MAX_RESOURCES : n \in Nat
<1>1. MAX_RESOURCES \in Nat BY DEF MAX_RESOURCES
<1> QED BY <1>1

(* The four regions follow one another, each on a 64-byte boundary.        *)
LEMMA Regions ==
    ASSUME Preparable(request), metaEnd \in Nat
    PROVE  /\ Cardinality(request.resources) \in 1..MAX_RESOURCES
           /\ request.manifest \in Nat
           /\ IndexOffset \in Nat /\ MetadataOffset \in Nat /\ DataOffset \in Nat
           /\ IndexOffset % DEFAULT_ALIGNMENT = 0
           /\ MetadataOffset % DEFAULT_ALIGNMENT = 0
           /\ DataOffset % DEFAULT_ALIGNMENT = 0
           /\ HEADER_SIZE + request.manifest <= IndexOffset
           /\ IndexOffset + Cardinality(request.resources) * INDEX_ENTRY_SIZE
                 <= MetadataOffset
           /\ MetadataOffset + metaEnd <= DataOffset
<1> DEFINE n == Cardinality(request.resources)
<1>1. n \in 1..MAX_RESOURCES /\ n \in Nat /\ request.manifest \in Nat
  <2>1. n \in 1..MAX_RESOURCES /\ request.manifest \in Nat
    BY Zenon DEF Preparable
  <2> HIDE DEF n
  <2> QED BY <2>1, CountIsNat
<1>2. DEFAULT_ALIGNMENT \in Alignments
  BY DEF Alignments
<1>3. HEADER_SIZE + request.manifest \in Nat
  BY <1>1 DEF HEADER_SIZE
<1>4. /\ IndexOffset \in Nat /\ IndexOffset % DEFAULT_ALIGNMENT = 0
      /\ HEADER_SIZE + request.manifest <= IndexOffset
  BY <1>2, <1>3, AlignUp DEF IndexOffset
<1>5. IndexOffset + IndexSize \in Nat /\ IndexSize = n * INDEX_ENTRY_SIZE
  BY <1>1, <1>4 DEF IndexSize, INDEX_ENTRY_SIZE
<1>6. /\ MetadataOffset \in Nat /\ MetadataOffset % DEFAULT_ALIGNMENT = 0
      /\ IndexOffset + IndexSize <= MetadataOffset
  BY <1>2, <1>5, AlignUp DEF MetadataOffset
<1>7. MetadataOffset + metaEnd \in Nat
  BY <1>6
<1>8. /\ DataOffset \in Nat /\ DataOffset % DEFAULT_ALIGNMENT = 0
      /\ MetadataOffset + metaEnd <= DataOffset
  BY <1>2, <1>7, AlignUp DEF DataOffset
<1> QED BY <1>1, <1>4, <1>5, <1>6, <1>8

LEMMA Sizes ==
    ASSUME NEW r, Acceptable(r)
    PROVE  /\ r.size \in Nat /\ r.meta \in Nat /\ r.align \in Alignments
           /\ 16 * Cardinality(r.deps) <= r.meta
<1>1. r.size \in Nat /\ r.meta \in Nat
  <2>1. r.size \in 0..MAX_STORED_BYTES /\ r.meta \in 0..MAX_METADATA_BYTES
    BY Zenon DEF Acceptable
  <2>2. MAX_STORED_BYTES \in Nat /\ MAX_METADATA_BYTES \in Nat
    BY DEF MAX_STORED_BYTES, MAX_METADATA_BYTES
  <2> QED BY <2>1, <2>2
<1>2. r.align \in Alignments
  BY Zenon DEF Acceptable, Alignments
<1>3. ASSUME NEW x, NEW n \in Nat, x \in 0..n
      PROVE  x <= n
  BY <1>3
<1>4. 16 * Cardinality(r.deps) \in 0..r.meta
  BY Zenon DEF Acceptable
<1>5. 16 * Cardinality(r.deps) <= r.meta
  BY Zenon, <1>1, <1>3, <1>4
<1> QED BY <1>1, <1>2, <1>5

-----------------------------------------------------------------------------
LEMMA LayoutInit == ContainerInit => LayoutInv
BY DEF ContainerInit, LayoutInv, Empty

LEMMA BeginKeeps ==
    ASSUME LayoutInv, NEW req, Begin(req)
    PROVE  LayoutInv'
<1>1. phase' = "metadata" /\ request' = req /\ Preparable(req) /\ metaEnd' = 0
  BY Zenon DEF Begin
<1>2. DOMAIN metaAt' = {} /\ dataAt' = Empty
  BY DEF Begin, Empty
<1>3. Preparable(request)'
  BY Zenon, <1>1 DEF Preparable
<1>4. ASSUME NEW i \in DOMAIN rows'
      PROVE  Acceptable(rows'[i])
  <2>1. PICK r \in req.resources : r.id = i
    BY Zenon, <1>4 DEF Begin
  <2>2. rows'[i] \in req.resources
    BY Zenon, <1>4, <2>1 DEF Begin
  <2> QED BY Zenon, <1>1, <2>2 DEF Preparable
<1>5. RowsHold'
  BY Zenon, <1>3, <1>4 DEF RowsHold, Acceptable
<1>6. MetadataHolds'
  BY <1>1, <1>2 DEF MetadataHolds
<1> QED BY <1>1, <1>2, <1>5, <1>6 DEF LayoutInv

LEMMA LayMetadataKeeps ==
    ASSUME LayoutInv, LayMetadata
    PROVE  LayoutInv'
<1>1. /\ phase = "metadata" /\ phase' = "metadata" /\ rows' = rows
      /\ request' = request /\ dataAt' = dataAt /\ RowsHold /\ MetadataHolds
      /\ dataAt = Empty
  BY Zenon DEF LayMetadata, LayoutInv
<1>2. PICK i \in DOMAIN rows : /\ metaAt' = Extend(metaAt, i, metaEnd)
                              /\ metaEnd' = metaEnd + rows[i].meta
  BY Zenon DEF LayMetadata
<1>3. /\ DOMAIN metaAt' = DOMAIN metaAt \cup {i} /\ metaAt'[i] = metaEnd
      /\ \A j \in DOMAIN metaAt : j # i => metaAt'[j] = metaAt[j]
  BY <1>2 DEF Extend
<1>4. \A j \in DOMAIN rows : rows[j].meta \in Nat
  BY Zenon, <1>1, Sizes DEF RowsHold
<1>5. MetadataHolds'
  <2>1. metaEnd \in Nat /\ metaEnd' \in Nat /\ metaEnd <= metaEnd'
    BY <1>1, <1>2, <1>4 DEF MetadataHolds
  <2>2. DOMAIN metaAt' \subseteq DOMAIN rows'
    BY Zenon, <1>1, <1>2, <1>3 DEF MetadataHolds
  <2>3. ASSUME NEW j \in DOMAIN metaAt'
        PROVE  metaAt'[j] \in Nat /\ metaAt'[j] + rows'[j].meta <= metaEnd'
    <3>1. CASE j = i
      BY <1>1, <1>2, <1>3, <2>1, <3>1
    <3>2. CASE j # i
      <4>1. j \in DOMAIN metaAt /\ metaAt'[j] = metaAt[j] /\ j \in DOMAIN rows
        BY Zenon, <1>1, <1>3, <2>3, <3>2 DEF MetadataHolds
      <4>2. metaAt[j] \in Nat /\ metaAt[j] + rows[j].meta <= metaEnd
        BY Zenon, <1>1, <4>1 DEF MetadataHolds
      <4>3. rows[j].meta \in Nat
        BY Zenon, <1>4, <4>1
      <4> QED BY <1>1, <2>1, <4>1, <4>2, <4>3
    <3> QED BY <3>1, <3>2
  <2> QED BY Zenon, <2>1, <2>2, <2>3 DEF MetadataHolds
<1>6. RowsHold'
  BY Zenon, <1>1 DEF RowsHold, Preparable, Acceptable
<1>7. dataAt' = Empty'
  BY Zenon, <1>1 DEF Empty
<1> QED BY <1>1, <1>5, <1>6, <1>7 DEF LayoutInv

LEMMA PlaceRegionsKeeps ==
    ASSUME LayoutInv, PlaceRegions
    PROVE  LayoutInv'
<1>1. /\ phase' = "data" /\ rows' = rows /\ metaAt' = metaAt /\ metaEnd' = metaEnd
      /\ request' = request /\ dataAt' = dataAt /\ RowsHold /\ MetadataHolds
      /\ dataAt = Empty /\ dataEnd' = DataOffset /\ DOMAIN metaAt = DOMAIN rows
  BY Zenon DEF PlaceRegions, LayoutInv
<1>2. RowsHold' /\ MetadataHolds'
  BY Zenon, <1>1 DEF RowsHold, MetadataHolds, Preparable, Acceptable
<1>3. DataOffset' = DataOffset
  BY Zenon, <1>1 DEF DataOffset, MetadataOffset, IndexOffset, IndexSize
<1>4. DataOffset \in Nat
  BY Zenon, <1>1, Regions DEF RowsHold, MetadataHolds
<1>5. DOMAIN dataAt' = {}
  BY <1>1 DEF Empty
<1>6. PlacedHolds'
  BY <1>1, <1>3, <1>4, <1>5 DEF PlacedHolds
<1> QED BY <1>1, <1>2, <1>6 DEF LayoutInv

LEMMA LayDataKeeps ==
    ASSUME LayoutInv, LayData
    PROVE  LayoutInv'
<1>1. /\ phase = "data" /\ phase' = "data" /\ rows' = rows /\ metaAt' = metaAt
      /\ metaEnd' = metaEnd /\ request' = request
      /\ RowsHold /\ MetadataHolds /\ PlacedHolds
  BY Zenon DEF LayData, LayoutInv
<1>2. PICK i \in DOMAIN rows :
          /\ IsNext(i, DOMAIN dataAt)
          /\ dataAt' = Extend(dataAt, i, align_up(dataEnd, rows[i].align))
          /\ dataEnd' = align_up(dataEnd, rows[i].align) + rows[i].size
  BY Zenon DEF LayData
<1> DEFINE at == align_up(dataEnd, rows[i].align)
<1>3. /\ i \notin DOMAIN dataAt /\ DOMAIN dataAt' = DOMAIN dataAt \cup {i}
      /\ dataAt'[i] = at /\ \A j \in DOMAIN dataAt : dataAt'[j] = dataAt[j]
  BY <1>2 DEF Extend, IsNext
<1>4. \A j \in DOMAIN rows : rows[j].size \in Nat /\ rows[j].align \in Alignments
  BY Zenon, <1>1, Sizes DEF RowsHold
<1>5. dataEnd \in Nat /\ DataOffset <= dataEnd
  BY Zenon, <1>1 DEF PlacedHolds
<1>6. at \in Nat /\ dataEnd <= at /\ at % rows[i].align = 0
  BY Zenon, <1>4, <1>5, AlignUp
<1> HIDE DEF at
<1>7. DataOffset' = DataOffset /\ DataOffset \in Nat
  <2>1. DataOffset' = DataOffset
    BY Zenon, <1>1 DEF DataOffset, MetadataOffset, IndexOffset, IndexSize
  <2>2. DataOffset \in Nat
    BY Zenon, <1>1, Regions DEF RowsHold, MetadataHolds
  <2> QED BY <2>1, <2>2
<1>8. /\ dataEnd' \in Nat /\ DataOffset <= at /\ at + rows[i].size = dataEnd'
      /\ dataEnd <= dataEnd'
  BY <1>2, <1>4, <1>5, <1>6, <1>7 DEF at
<1>9. DOMAIN dataAt \subseteq DOMAIN rows
  BY Zenon, <1>1 DEF PlacedHolds
<1>10. ASSUME NEW j \in DOMAIN dataAt
       PROVE  /\ dataAt'[j] = dataAt[j] /\ dataAt[j] \in Nat /\ j \in DOMAIN rows
              /\ dataAt[j] % rows[j].align = 0 /\ DataOffset <= dataAt[j]
              /\ dataAt[j] + rows[j].size <= dataEnd /\ rows[j].size \in Nat
  BY Zenon, <1>1, <1>3, <1>4, <1>9 DEF PlacedHolds
<1>11. ASSUME NEW j \in DOMAIN dataAt'
       PROVE  /\ dataAt'[j] \in Nat /\ dataAt'[j] % rows'[j].align = 0
              /\ DataOffset' <= dataAt'[j] /\ dataAt'[j] + rows'[j].size <= dataEnd'
  <2>1. CASE j = i
    BY <1>1, <1>3, <1>6, <1>7, <1>8, <2>1
  <2>2. CASE j # i
    <3>1. j \in DOMAIN dataAt
      BY Zenon, <1>3, <1>11, <2>2
    <3>2. dataAt[j] + rows[j].size <= dataEnd'
      BY <1>5, <1>8, <1>10, <3>1
    <3> QED BY Zenon, <1>1, <1>7, <1>10, <3>1, <3>2
  <2> QED BY <2>1, <2>2
<1>12. ASSUME NEW j \in DOMAIN dataAt', NEW k \in DOMAIN dataAt', j # k
       PROVE  \/ dataAt'[j] + rows'[j].size <= dataAt'[k]
              \/ dataAt'[k] + rows'[k].size <= dataAt'[j]
  <2>1. ASSUME NEW l \in DOMAIN dataAt
        PROVE  dataAt'[l] + rows'[l].size <= dataAt'[i]
    BY <1>1, <1>3, <1>5, <1>6, <1>10, <2>1
  <2>2. CASE j = i \/ k = i
    BY Zenon, <1>3, <1>12, <2>1, <2>2
  <2>3. CASE j # i /\ k # i
    <3>1. j \in DOMAIN dataAt /\ k \in DOMAIN dataAt
      BY Zenon, <1>3, <1>12, <2>3
    <3> QED BY Zenon, <1>1, <1>10, <1>12, <3>1 DEF PlacedHolds
  <2> QED BY <2>2, <2>3
<1>13. PlacedHolds'
  <2>1. dataEnd' \in Nat /\ DataOffset' <= dataEnd'
    BY <1>5, <1>7, <1>8
  <2>2. DOMAIN metaAt' = DOMAIN rows' /\ DOMAIN dataAt' \subseteq DOMAIN rows'
    BY Zenon, <1>1, <1>2, <1>3, <1>9 DEF PlacedHolds
  <2> QED BY Zenon, <2>1, <2>2, <1>11, <1>12 DEF PlacedHolds
<1>14. RowsHold' /\ MetadataHolds'
  BY Zenon, <1>1 DEF RowsHold, MetadataHolds, Preparable, Acceptable
<1> QED BY <1>1, <1>13, <1>14 DEF LayoutInv

LEMMA SealKeeps ==
    ASSUME LayoutInv, Seal
    PROVE  LayoutInv'
<1>1. /\ phase = "data" /\ phase' = "built" /\ DOMAIN dataAt = DOMAIN rows
      /\ rows' = rows /\ metaAt' = metaAt /\ metaEnd' = metaEnd /\ request' = request
      /\ dataAt' = dataAt /\ dataEnd' = dataEnd /\ package' = Sealed(Unsealed)
      /\ RowsHold /\ MetadataHolds /\ PlacedHolds
  BY Zenon DEF Seal, LayoutInv
<1>2. DataOffset' = DataOffset /\ Unsealed' = Unsealed
  BY Zenon, <1>1
  DEF Unsealed, Index, Payload, DataOffset, MetadataOffset, IndexOffset, IndexSize
<1>3. RowsHold' /\ MetadataHolds' /\ PlacedHolds'
  BY Zenon, <1>1, <1>2 DEF RowsHold, MetadataHolds, PlacedHolds, Preparable, Acceptable
<1>4. Sealed(Unsealed)' = Sealed(Unsealed)
  BY Zenon, <1>2 DEF Sealed
<1> QED BY <1>1, <1>3, <1>4 DEF LayoutInv

LEMMA StutterKeeps ==
    ASSUME LayoutInv, UNCHANGED containerVars
    PROVE  LayoutInv'
<1>1. /\ request' = request /\ phase' = phase /\ rows' = rows /\ metaAt' = metaAt
      /\ metaEnd' = metaEnd /\ dataAt' = dataAt /\ dataEnd' = dataEnd
      /\ package' = package
  BY Zenon DEF containerVars
<1>2. DataOffset' = DataOffset /\ Unsealed' = Unsealed
  BY Zenon, <1>1
  DEF Unsealed, Index, Payload, DataOffset, MetadataOffset, IndexOffset, IndexSize
<1>3. /\ RowsHold => RowsHold'
      /\ MetadataHolds => MetadataHolds'
      /\ PlacedHolds => PlacedHolds'
  BY Zenon, <1>1, <1>2 DEF RowsHold, MetadataHolds, PlacedHolds, Preparable, Acceptable
<1> QED BY Zenon, <1>1, <1>2, <1>3 DEF LayoutInv, Sealed

(* The only ways a step of the converter or of its surroundings has to a   *)
(* container.                                                              *)
LEMMA TreeSteps ==
    ASSUME [TreeNext]_<<treeVars, containerVars>>
    PROVE  (\E req : Begin(req)) \/ ContainerStep \/ UNCHANGED containerVars
<1>1. CASE Fingerprint \/ Convert \/ Bundle \/ _write_verified \/ Publish \/ Fail \/ Occupy
  BY Zenon, <1>1 DEF Fingerprint, Convert, Bundle, _write_verified, Publish, Fail, Occupy
<1>2. CASE BeginCore
  <2>1. CASE BeginPackage("core", {CoreRequest(m) : m \in ManifestSizes})
    BY Zenon, <2>1 DEF BeginPackage
  <2> QED BY Zenon, <1>2, <2>1 DEF BeginCore
<1>3. CASE BeginLanguage
  BY Zenon, <1>3 DEF BeginLanguage, BeginPackage
<1>4. CASE BuildPackage
  BY Zenon, <1>4 DEF BuildPackage
<1>5. ASSUME NEW f \in Inputs, Edit(f) \/ Remove(f)
      PROVE  UNCHANGED containerVars
  BY Zenon, <1>5 DEF Edit, Remove, Change
<1>6. CASE UNCHANGED <<treeVars, containerVars>>
  BY Zenon, <1>6
<1> QED BY Zenon, <1>1, <1>2, <1>3, <1>4, <1>5, <1>6 DEF TreeNext

LEMMA StepKeeps == LayoutInv /\ [TreeNext]_<<treeVars, containerVars>> => LayoutInv'
<1> SUFFICES ASSUME LayoutInv, [TreeNext]_<<treeVars, containerVars>>
             PROVE  LayoutInv'
  OBVIOUS
<1>1. CASE \E req : Begin(req)
  BY Zenon, <1>1, BeginKeeps
<1>2. CASE ContainerStep
  BY Zenon, <1>2, LayMetadataKeeps, PlaceRegionsKeeps, LayDataKeeps, SealKeeps
  DEF ContainerStep
<1>3. CASE UNCHANGED containerVars
  BY Zenon, <1>3, StutterKeeps
<1> QED BY Zenon, <1>1, <1>2, <1>3, TreeSteps

(* A finished layout, seen with the inspector's eyes.                      *)
LEMMA InspectorAccepts == LayoutInv => WriterMeetsInspector
<1> SUFFICES ASSUME LayoutInv, phase = "built"
             PROVE  inspect_package(Sealed(Unsealed))
  BY Zenon DEF LayoutInv, WriterMeetsInspector
<1>1. /\ RowsHold /\ MetadataHolds /\ PlacedHolds /\ DOMAIN dataAt = DOMAIN rows
      /\ metaEnd \in Nat /\ dataEnd \in Nat /\ DataOffset <= dataEnd
  BY DEF LayoutInv, MetadataHolds, PlacedHolds
<1> DEFINE p == Unsealed
<1>2. /\ p.role = request.role /\ p.source = request.source
      /\ p.manifestAt = HEADER_SIZE /\ p.manifestSize = request.manifest
      /\ p.indexAt = IndexOffset /\ p.count = Cardinality(request.resources)
      /\ p.metadataAt = MetadataOffset /\ p.metadataSize = metaEnd
      /\ p.dataAt = DataOffset /\ p.dataSize = dataEnd - DataOffset
      /\ p.size = dataEnd /\ p.index = Index /\ p.payload = Payload
  BY DEF Unsealed
<1>3. ManifestHolds(p) /\ DigestsHold(p)
  BY DEF Unsealed, ManifestHolds, DigestsHold
<1> HIDE DEF p
<1>4. /\ Cardinality(request.resources) \in 1..MAX_RESOURCES /\ request.manifest \in Nat
      /\ IndexOffset \in Nat /\ MetadataOffset \in Nat /\ DataOffset \in Nat
      /\ IndexOffset % DEFAULT_ALIGNMENT = 0 /\ MetadataOffset % DEFAULT_ALIGNMENT = 0
      /\ DataOffset % DEFAULT_ALIGNMENT = 0
      /\ HEADER_SIZE + request.manifest <= IndexOffset
      /\ IndexOffset + Cardinality(request.resources) * INDEX_ENTRY_SIZE <= MetadataOffset
      /\ MetadataOffset + metaEnd <= DataOffset
  BY Zenon, <1>1, Regions DEF RowsHold
<1>5. RegionsHold(p)
  <2>1. HEADER_SIZE % DEFAULT_ALIGNMENT = 0 /\ HEADER_SIZE <= HEADER_SIZE
    BY DEF HEADER_SIZE, DEFAULT_ALIGNMENT
  <2>2. DataOffset + (dataEnd - DataOffset) = dataEnd
    BY <1>1, <1>4
  <2> QED BY Zenon, <1>2, <1>4, <2>1, <2>2 DEF RegionsHold
<1>6. ASSUME NEW i \in DOMAIN rows
      PROVE  /\ Acceptable(rows[i]) /\ rows[i].size \in Nat
             /\ dataAt[i] \in Nat /\ dataAt[i] % rows[i].align = 0
             /\ DataOffset <= dataAt[i] /\ dataAt[i] + rows[i].size <= dataEnd
             /\ metaAt[i] + rows[i].meta <= metaEnd
             /\ 16 * Cardinality(rows[i].deps) <= rows[i].meta
  BY Zenon, <1>1, Sizes DEF RowsHold, MetadataHolds, PlacedHolds
<1>7. DOMAIN Index = DOMAIN rows
  BY DEF Index
<1>8. ASSUME NEW i \in DOMAIN rows
      PROVE  /\ Index[i].kind = rows[i].kind /\ Index[i].flags = rows[i].flags
             /\ Index[i].align = rows[i].align /\ Index[i].offset = dataAt[i]
             /\ Index[i].size = rows[i].size /\ Index[i].metaAt = metaAt[i]
             /\ Index[i].metaSize = rows[i].meta /\ Index[i].deps = rows[i].deps
             /\ Payload[i] = <<Index[i].offset, Index[i].stored_sha256>>
  BY DEF Index, Payload
<1>9. ASSUME NEW i \in DOMAIN rows
      PROVE  EntryHolds(p, i)
  <2>1. DataOffset + (dataEnd - DataOffset) = dataEnd
    BY <1>1, <1>4
  <2>2. /\ rows[i].kind \in RESOURCE_KINDS /\ rows[i].flags \subseteq KNOWN_FLAGS
        /\ rows[i].align \in {DEFAULT_ALIGNMENT, AUDIO_ALIGNMENT}
    BY Zenon, <1>6 DEF Acceptable
  <2> QED BY Zenon, <1>2, <1>6, <1>8, <2>1, <2>2 DEF EntryHolds
<1>10. PayloadsDisjoint(p)
  <2> SUFFICES ASSUME NEW i \in DOMAIN rows, NEW j \in DOMAIN rows, i # j,
                      \/ dataAt[i] < dataAt[j]
                      \/ dataAt[i] = dataAt[j] /\ rows[i].size <= rows[j].size
               PROVE  dataAt[i] + rows[i].size <= dataAt[j]
    <3>1. DOMAIN p.index = DOMAIN rows
      BY Zenon, <1>2, <1>7
    <3>2. \A k \in DOMAIN rows : /\ p.index[k].offset = dataAt[k]
                                 /\ p.index[k].size = rows[k].size
      BY Zenon, <1>2, <1>8
    <3> QED BY <3>1, <3>2 DEF PayloadsDisjoint
  <2>1. \/ dataAt[i] + rows[i].size <= dataAt[j]
        \/ dataAt[j] + rows[j].size <= dataAt[i]
    BY Zenon, <1>1 DEF PlacedHolds
  <2> QED BY <1>6, <2>1
<1>11. /\ Sealed(Unsealed).body = p
       /\ Sealed(Unsealed).container_sha256 = container_hash(Sealed(Unsealed))
  BY DEF p, Sealed, container_hash
<1>12. p.role \in PACKAGE_ROLES /\ DOMAIN p.index = DOMAIN rows
  BY Zenon, <1>1, <1>2, <1>7 DEF RowsHold, Preparable
<1> QED BY Zenon, <1>2, <1>3, <1>4, <1>5, <1>9, <1>10, <1>11, <1>12 DEF inspect_package

(* Every container build_package finishes is one inspect_package accepts,  *)
(* for any inputs, sizes, alignments and edits.                            *)
THEOREM ContainersInspect == TreeSpec => []WriterMeetsInspector
<1>1. ConverterInit => LayoutInv
  BY Zenon, LayoutInit DEF ConverterInit
<1> QED BY <1>1, StepKeeps, InspectorAccepts, PTL DEF TreeSpec

-----------------------------------------------------------------------------
(* What the runtime mounts.  A package is followed from the request it was *)
(* begun with to the tree that is published.                               *)

RowsAre == phase # "idle" =>
    /\ DOMAIN rows = {r.id : r \in request.resources}
    /\ \A r \in request.resources : rows[r.id] = r

(* A file says of its resources, groups and dependencies what was asked.   *)
Describes(file, req) ==
    /\ file.container_sha256 = file.body
    /\ file.body.role = req.role /\ file.body.source = req.source
    /\ file.body.metadataSize \in Nat
    /\ file.body.manifest.groups = req.groups
    /\ file.body.manifest.dependencies = req.dependencies
    /\ file.body.manifest.budgets = req.budgets
    /\ DOMAIN file.body.index = {r.id : r \in req.resources}
    /\ \A r \in req.resources :
          /\ file.body.index[r.id].offset \in Nat /\ file.body.index[r.id].size \in Nat
          /\ file.body.index[r.id].kind = r.kind /\ file.body.index[r.id].flags = r.flags
          /\ file.body.index[r.id].group = r.group /\ file.body.index[r.id].align = r.align
          /\ file.body.index[r.id].deps = r.deps

CoreMade == {"core_built", "language", "bundle", "write", "done"}
BothMade == {"bundle", "write", "done"}

(* What has been read, asked for and built by the time a stage is reached. *)
ConvertedInv ==
    /\ \A f \in {"sound", "language"} \cap DOMAIN converted : converted[f] # Absent
    /\ stage \in {"budgets", "core"} \cup CoreMade => DOMAIN converted = Inputs
RequestInv ==
    /\ stage = "core" => \E m \in ManifestSizes : request = CoreRequest(m)
    /\ stage = "language" => \E m \in ManifestSizes : request = LanguageRequest(m)
BuiltInv ==
    /\ stage \in {"scan", "convert", "budgets", "core"} => DOMAIN built = {}
    /\ stage \in {"core_built", "language"} => DOMAIN built = {"core"}
    /\ stage = "bundle" => DOMAIN built = {"core", "language"}
    /\ stage \in {"write", "done"} => /\ DOMAIN built = {"core", "language", "bundle"}
                                      /\ built["bundle"] = build_bundle_manifest
    /\ stage \in CoreMade => \E m : Describes(built["core"], CoreRequest(m))
    /\ stage \in BothMade => \E m : Describes(built["language"], LanguageRequest(m))
StagedInv ==
    /\ stage \notin {"write", "done", "refused"} => DOMAIN staged = {}
    /\ stage = "write" => \A p \in DOMAIN staged :
          staged[p] = built[p] /\ Inspected(p, built[p])
    /\ stage = "done" =>
          /\ DOMAIN published = DOMAIN built
          /\ \A p \in DOMAIN published :
                published[p] = built[p] /\ Inspected(p, built[p])

MountInv == RowsAre /\ ConvertedInv /\ RequestInv /\ BuiltInv /\ StagedInv

(* Nothing is begun, built or staged at the start.                         *)
LEMMA MountInit == ConverterInit => MountInv
BY DEF ConverterInit, TreeInit, ContainerInit, MountInv, RowsAre, ConvertedInv, RequestInv,
       BuiltInv, StagedInv, CoreMade, BothMade, None

(* rows indexes the resources of the request, by id, from Begin on.        *)
LEMMA RowsKeep ==
    ASSUME RowsAre, (\E req : Begin(req)) \/ ContainerStep \/ UNCHANGED containerVars
    PROVE  RowsAre'
<1>1. ASSUME NEW req, Begin(req) PROVE RowsAre'
  <2>1. /\ request' = req /\ \A r, s \in req.resources : r.id = s.id => r = s
        /\ rows' = [i \in {r.id : r \in req.resources} |->
                       CHOOSE r \in req.resources : r.id = i]
    BY Zenon, <1>1 DEF Begin, Preparable
  <2>2. ASSUME NEW r \in req.resources PROVE rows'[r.id] = r
    <3>1. (CHOOSE s \in req.resources : s.id = r.id) = r
      BY Zenon, <2>1
    <3> QED BY <2>1, <3>1
  <2> QED BY <2>1, <2>2 DEF RowsAre
<1>2. CASE ContainerStep
  BY <1>2 DEF ContainerStep, LayMetadata, PlaceRegions, LayData, Seal, RowsAre
<1>3. CASE UNCHANGED containerVars
  BY <1>3 DEF containerVars, RowsAre
<1> QED BY <1>1, <1>2, <1>3

(* The package in hand when the second loop ends.                          *)
LEMMA SealDescribes ==
    ASSUME LayoutInv, RowsAre, Seal
    PROVE  Describes(package', request)
<1>1. /\ package' = Sealed(Unsealed) /\ phase = "data" /\ metaEnd \in Nat
      /\ DOMAIN rows = {r.id : r \in request.resources}
      /\ \A r \in request.resources : rows[r.id] = r
      /\ RowsHold /\ PlacedHolds /\ DOMAIN dataAt = DOMAIN rows
  BY Zenon DEF Seal, LayoutInv, MetadataHolds, RowsAre
<1>2. /\ Unsealed.role = request.role /\ Unsealed.source = request.source
      /\ Unsealed.metadataSize = metaEnd /\ Unsealed.index = Index
      /\ Unsealed.manifest.groups = request.groups
      /\ Unsealed.manifest.dependencies = request.dependencies
      /\ Unsealed.manifest.budgets = request.budgets
  BY DEF Unsealed
<1>3. package'.body = Unsealed /\ package'.container_sha256 = Unsealed
  BY <1>1 DEF Sealed
<1>4. DOMAIN Index = DOMAIN rows /\ \A i \in DOMAIN rows :
         /\ Index[i].kind = rows[i].kind /\ Index[i].flags = rows[i].flags
         /\ Index[i].group = rows[i].group /\ Index[i].align = rows[i].align
         /\ Index[i].deps = rows[i].deps
         /\ Index[i].offset = dataAt[i] /\ Index[i].size = rows[i].size
         /\ Index[i].offset \in Nat /\ Index[i].size \in Nat
  <2>1. \A i \in DOMAIN rows : dataAt[i] \in Nat /\ rows[i].size \in Nat
    BY Zenon, <1>1, Sizes DEF RowsHold, PlacedHolds
  <2> QED BY <2>1 DEF Index
<1>5. ASSUME NEW r \in request.resources
      PROVE  /\ Index[r.id].offset \in Nat /\ Index[r.id].size \in Nat
             /\ Index[r.id].kind = r.kind /\ Index[r.id].flags = r.flags
             /\ Index[r.id].group = r.group /\ Index[r.id].align = r.align
             /\ Index[r.id].deps = r.deps
  BY <1>1, <1>4
<1> QED BY <1>1, <1>2, <1>3, <1>4, <1>5 DEF Describes

(* Once everything is converted the requests no longer change.             *)
LEMMA RequestsStay ==
    ASSUME UNCHANGED <<records, converted>>
    PROVE  /\ source_set_digest' = source_set_digest
           /\ \A m : CoreRequest(m)' = CoreRequest(m)
           /\ built'["core"] = built["core"] =>
                 \A m : LanguageRequest(m)' = LanguageRequest(m)
<1>1. source_set_digest' = source_set_digest
  BY DEF source_set_digest
<1>2. CoreResources' = CoreResources /\ LanguageResources' = LanguageResources
  <2>1. \A f : /\ Present(f)' = Present(f) /\ StoredSize(f)' = StoredSize(f)
              /\ DecodedSize(f)' = DecodedSize(f)
    BY Zenon DEF Present, StoredSize, DecodedSize
  <2>2. \A kind, f, group, flags, deps :
           Resource(kind, f, group, flags, deps)' = Resource(kind, f, group, flags, deps)
    BY Zenon, <2>1 DEF Resource
  <2>3. \A kind, f, group, flags :
           Optional(kind, f, group, flags)' = Optional(kind, f, group, flags)
    BY Zenon, <2>1, <2>2 DEF Optional
  <2>4. CoreResources' = CoreResources
    BY Zenon, <2>2, <2>3 DEF CoreResources
  <2>5. LanguageResources' = LanguageResources
    BY Zenon, <2>1, <2>2, <2>3 DEF LanguageResources
  <2> QED BY <2>4, <2>5
<1>3. \A m : CoreRequest(m)' = CoreRequest(m)
  BY <1>1, <1>2 DEF CoreRequest, _group
<1>4. ASSUME built'["core"] = built["core"]
      PROVE  \A m : LanguageRequest(m)' = LanguageRequest(m)
  BY <1>1, <1>2, <1>4 DEF LanguageRequest, _group
<1> QED BY <1>1, <1>3, <1>4

(* Steps that leave alone what has been built and begun.                   *)
LEMMA BuiltStays ==
    ASSUME BuiltInv, UNCHANGED <<records, converted, built>>,
           stage' = stage \/ (stage' = "refused") \/ (stage = "write" /\ stage' = "done")
              \/ (stage = "budgets" /\ stage' = "core")
              \/ (stage = "core_built" /\ stage' = "language")
    PROVE  BuiltInv'
<1>1. /\ \A m : CoreRequest(m)' = CoreRequest(m)
      /\ \A m : LanguageRequest(m)' = LanguageRequest(m)
      /\ source_set_digest' = source_set_digest
  BY Zenon, RequestsStay
<1>2. build_bundle_manifest' = build_bundle_manifest
  BY Zenon, <1>1 DEF build_bundle_manifest, BundleValue, Row
<1>3. built' = built
  OBVIOUS
<1> QED BY <1>1, <1>2, <1>3 DEF BuiltInv, CoreMade, BothMade, Describes

(* The loops over the game's files: a required one that is absent refuses. *)
LEMMA ReadingKeeps ==
    ASSUME MountInv, Fingerprint \/ Convert
    PROVE  MountInv'
<1>1. /\ UNCHANGED <<built, published, containerVars>> /\ stage \in {"scan", "convert"}
      /\ stage' \in {"scan", "convert", "budgets", "refused"}
  BY DEF Fingerprint, Convert, Refuse
<1>2. RowsAre'
  BY <1>1, RowsKeep DEF MountInv
<1>3. ConvertedInv'
  <2>1. CASE Fingerprint
    BY <2>1 DEF Fingerprint, MountInv, ConvertedInv, CoreMade
  <2>2. CASE Convert
    <3> DEFINE f == Following(converted, Conversion)
    <3>1. CASE f \in {"sound", "language"} /\ game[f] = Absent
      BY <2>2, <3>1 DEF Convert, Refuse, MountInv, ConvertedInv, CoreMade
    <3>2. CASE ~(f \in {"sound", "language"} /\ game[f] = Absent)
      <4>1. /\ converted' = Put(converted, f, game[f])
            /\ stage' = IF DOMAIN converted' = Inputs THEN "budgets" ELSE "convert"
        BY <2>2, <3>2 DEF Convert
      <4> HIDE DEF f
      <4> QED BY <3>2, <4>1 DEF Put, MountInv, ConvertedInv, CoreMade
    <3> QED BY <3>1, <3>2
  <2> QED BY <2>1, <2>2
<1>4. RequestInv' /\ BuiltInv'
  BY <1>1 DEF MountInv, RequestInv, BuiltInv, CoreMade, BothMade
<1>5. StagedInv'
  <2>1. DOMAIN staged = {}
    BY <1>1 DEF MountInv, StagedInv
  <2>2. staged' = staged \/ stage' = "refused"
    BY DEF Fingerprint, Convert, Refuse
  <2> QED BY <1>1, <2>1, <2>2 DEF StagedInv
<1> QED BY <1>2, <1>3, <1>4, <1>5 DEF MountInv

(* build_package is called for the core, then for the language.            *)
LEMMA BeginPackageKeeps ==
    ASSUME MountInv,
           \/ BeginCore \/ BeginLanguage
    PROVE  MountInv'
<1>1. /\ UNCHANGED <<records, converted, built, published>>
      /\ \/ stage' = "refused"
         \/ /\ stage = "budgets" /\ stage' = "core" /\ staged' = staged
            /\ \E m \in ManifestSizes : Begin(CoreRequest(m))
         \/ /\ stage = "core_built" /\ stage' = "language" /\ staged' = staged
            /\ \E m \in ManifestSizes : Begin(LanguageRequest(m))
      /\ (\E req : Begin(req)) \/ UNCHANGED containerVars
  BY Zenon DEF BeginCore, BeginLanguage, BeginPackage, Refuse
<1>2. RowsAre'
  BY <1>1, RowsKeep DEF MountInv
<1>3. ConvertedInv'
  BY <1>1 DEF MountInv, ConvertedInv, CoreMade
<1>4. BuiltInv'
  BY <1>1, BuiltStays DEF MountInv
<1>5. RequestInv'
  <2>1. /\ \A m : CoreRequest(m)' = CoreRequest(m)
        /\ \A m : LanguageRequest(m)' = LanguageRequest(m)
    BY Zenon, <1>1, RequestsStay
  <2>2. \A req : Begin(req) => request' = req
    BY Zenon DEF Begin
  <2> QED BY <1>1, <2>1, <2>2 DEF RequestInv
<1>6. StagedInv'
  BY <1>1 DEF MountInv, StagedInv
<1> QED BY <1>2, <1>3, <1>4, <1>5, <1>6 DEF MountInv

(* Its loops run; the file they end with is kept under its path.           *)
LEMMA BuildPackageKeeps ==
    ASSUME LayoutInv, MountInv, BuildPackage
    PROVE  MountInv'
<1>1. /\ UNCHANGED <<records, converted, staged, published>> /\ ContainerStep
      /\ stage \in {"core", "language"}
      /\ \/ /\ phase' = "built" /\ built' = Put(built, stage, package')
            /\ stage' = IF stage = "core" THEN "core_built" ELSE "bundle"
         \/ phase' # "built" /\ UNCHANGED <<built, stage>>
  BY Zenon DEF BuildPackage
<1>2. RowsAre' /\ request' = request
  BY <1>1, RowsKeep DEF MountInv, ContainerStep, LayMetadata, PlaceRegions, LayData, Seal
<1>3. ConvertedInv' /\ StagedInv'
  BY <1>1 DEF MountInv, ConvertedInv, StagedInv, CoreMade
<1>4. CASE phase' # "built"
  <2>1. UNCHANGED <<built, stage>>
    BY <1>1, <1>4
  <2>2. BuiltInv'
    BY <1>1, <2>1, BuiltStays DEF MountInv
  <2>3. RequestInv'
    <3>1. /\ \A m : CoreRequest(m)' = CoreRequest(m)
          /\ \A m : LanguageRequest(m)' = LanguageRequest(m)
      BY Zenon, <1>1, <2>1, RequestsStay
    <3> QED BY <1>2, <2>1, <3>1 DEF MountInv, RequestInv
  <2> QED BY <1>2, <1>3, <2>2, <2>3 DEF MountInv
<1>5. CASE phase' = "built"
  <2>1. Describes(package', request)
    <3>1. Seal
      BY <1>1, <1>5 DEF ContainerStep, LayMetadata, PlaceRegions, LayData
    <3> QED BY <3>1, SealDescribes DEF MountInv
  <2>2. /\ built' = Put(built, stage, package')
        /\ stage' = IF stage = "core" THEN "core_built" ELSE "bundle"
    BY <1>1, <1>5
  <2>3. CASE stage = "core"
    <3>1. PICK m \in ManifestSizes : request = CoreRequest(m)
      BY <2>3 DEF MountInv, RequestInv
    <3>2. CoreRequest(m)' = CoreRequest(m)
      BY Zenon, <1>1, RequestsStay
    <3>3. built'["core"] = package' /\ DOMAIN built' = {"core"} /\ stage' = "core_built"
      BY <2>2, <2>3 DEF Put, MountInv, BuiltInv
    <3>4. Describes(built["core"], CoreRequest(m))'
      BY <2>1, <3>1, <3>2, <3>3 DEF Describes
    <3>5. BuiltInv' /\ RequestInv'
      BY <3>3, <3>4 DEF BuiltInv, RequestInv, CoreMade, BothMade
    <3> QED BY <1>2, <1>3, <3>5 DEF MountInv
  <2>4. CASE stage = "language"
    <3>1. PICK m \in ManifestSizes : request = LanguageRequest(m)
      BY <2>4 DEF MountInv, RequestInv
    <3>2. PICK k : Describes(built["core"], CoreRequest(k))
      BY <2>4 DEF MountInv, BuiltInv, CoreMade
    <3>3. /\ built'["language"] = package' /\ built'["core"] = built["core"]
          /\ DOMAIN built' = {"core", "language"} /\ stage' = "bundle"
      BY <2>2, <2>4 DEF Put, MountInv, BuiltInv
    <3>4. LanguageRequest(m)' = LanguageRequest(m) /\ CoreRequest(k)' = CoreRequest(k)
      BY Zenon, <1>1, <3>3, RequestsStay
    <3>5. Describes(built["core"], CoreRequest(k))'
      BY <3>2, <3>3, <3>4 DEF Describes
    <3>6. Describes(built["language"], LanguageRequest(m))'
      BY <2>1, <3>1, <3>3, <3>4 DEF Describes
    <3>7. BuiltInv' /\ RequestInv'
      BY <3>3, <3>5, <3>6 DEF BuiltInv, RequestInv, CoreMade, BothMade
    <3> QED BY <1>2, <1>3, <3>7 DEF MountInv
  <2> QED BY <1>1, <2>3, <2>4
<1> QED BY <1>4, <1>5

(* The bundle names the two packages as they were built.                   *)
LEMMA BundleKeeps ==
    ASSUME MountInv, Bundle
    PROVE  MountInv'
<1>1. /\ UNCHANGED <<records, converted, published, containerVars>> /\ stage = "bundle"
      /\ \/ /\ built' = Put(built, "bundle", build_bundle_manifest)
            /\ stage' = "write" /\ staged' = staged
         \/ stage' = "refused" /\ built' = built
  BY Zenon DEF Bundle, Refuse
<1>2. RowsAre'
  BY <1>1, RowsKeep DEF MountInv
<1>3. ConvertedInv' /\ RequestInv'
  BY <1>1 DEF MountInv, ConvertedInv, RequestInv, CoreMade
<1>4. CASE stage' = "refused"
  <2>1. BuiltInv'
    BY <1>1, <1>4, BuiltStays DEF MountInv
  <2>2. StagedInv'
    BY <1>4 DEF StagedInv
  <2> QED BY <1>2, <1>3, <2>1, <2>2 DEF MountInv
<1>5. CASE built' = Put(built, "bundle", build_bundle_manifest) /\ stage' = "write"
           /\ staged' = staged
  <2>1. /\ built'["bundle"] = build_bundle_manifest
        /\ built'["core"] = built["core"] /\ built'["language"] = built["language"]
        /\ DOMAIN built' = {"core", "language", "bundle"}
    BY <1>1, <1>5 DEF Put, MountInv, BuiltInv
  <2>2. /\ \A m : CoreRequest(m)' = CoreRequest(m)
        /\ \A m : LanguageRequest(m)' = LanguageRequest(m)
        /\ source_set_digest' = source_set_digest
    BY Zenon, <1>1, <2>1, RequestsStay
  <2>3. BundleValue' = BundleValue
    <3>1. \A p \in {"core", "language"} : Row(p)' = Row(p)
      BY <2>1 DEF Row
    <3> QED BY <2>2, <3>1 DEF BundleValue
  <2>4. build_bundle_manifest' = build_bundle_manifest
    BY <2>3 DEF build_bundle_manifest
  <2>5. PICK k : Describes(built["core"], CoreRequest(k))
    BY <1>1 DEF MountInv, BuiltInv, CoreMade
  <2>6. PICK m : Describes(built["language"], LanguageRequest(m))
    BY <1>1 DEF MountInv, BuiltInv, BothMade
  <2>7. Describes(built["core"], CoreRequest(k))'
    BY <2>1, <2>2, <2>5 DEF Describes
  <2>8. Describes(built["language"], LanguageRequest(m))'
    BY <2>1, <2>2, <2>6 DEF Describes
  <2>9. BuiltInv'
    BY <1>5, <2>1, <2>4, <2>7, <2>8 DEF BuiltInv
  <2>10. StagedInv'
    BY <1>1, <1>5 DEF MountInv, StagedInv
  <2> QED BY <1>2, <1>3, <2>9, <2>10 DEF MountInv
<1> QED BY <1>1, <1>4, <1>5

(* Every file is inspected as it is staged, and the stage is moved whole.  *)
LEMMA PublishingKeeps ==
    ASSUME MountInv, _write_verified \/ Publish
    PROVE  MountInv'
<1>1. /\ UNCHANGED <<records, converted, built, containerVars>> /\ stage = "write"
      /\ stage' \in {"write", "done", "refused"}
  BY DEF _write_verified, Publish, Refuse
<1>2. RowsAre' /\ ConvertedInv' /\ RequestInv' /\ BuiltInv'
  BY <1>1, RowsKeep, BuiltStays DEF MountInv, ConvertedInv, RequestInv, CoreMade
<1>3. \A p : Inspected(p, built[p])' <=> Inspected(p, built[p])
  BY Zenon, <1>1 DEF Inspected
<1>4. CASE _write_verified
  <2> DEFINE path == Following(staged, Paths)
  <2>1. CASE Inspected(path, built[path]) /\ staged' = Put(staged, path, built[path])
             /\ stage' = stage
    <3> HIDE DEF path
    <3>1. \A p \in DOMAIN staged' : staged'[p] = built[p] /\ Inspected(p, built[p])
      BY <1>1, <2>1 DEF Put, MountInv, StagedInv
    <3> QED BY <1>1, <1>2, <1>3, <2>1, <3>1 DEF MountInv, StagedInv
  <2>2. CASE stage' = "refused"
    BY <1>2, <2>2 DEF MountInv, StagedInv
  <2> QED BY <1>4, <2>1, <2>2 DEF _write_verified, Refuse
<1>5. CASE Publish
  <2>1. CASE published' = staged /\ stage' = "done" /\ DOMAIN staged = DOMAIN built
    BY <1>1, <1>2, <1>3, <2>1 DEF MountInv, StagedInv
  <2>2. CASE stage' = "refused"
    BY <1>2, <2>2 DEF MountInv, StagedInv
  <2> QED BY <1>5, <2>1, <2>2 DEF Publish, Refuse
<1> QED BY <1>4, <1>5

(* Failures, edits of the game and others at the output path.              *)
LEMMA SurroundingsKeep ==
    ASSUME MountInv,
           \/ Fail \/ Occupy \/ (\E f \in Inputs : Edit(f) \/ Remove(f))
           \/ UNCHANGED <<treeVars, containerVars>>
    PROVE  MountInv'
<1>1. /\ UNCHANGED <<records, converted, built, containerVars>>
      /\ stage' = stage \/ stage' = "refused"
      /\ stage' = stage => staged' = staged
      /\ stage' = "done" => published' = published
  BY Zenon DEF Fail, Occupy, Edit, Remove, Change, treeVars
<1>2. RowsAre' /\ BuiltInv'
  BY <1>1, RowsKeep, BuiltStays DEF MountInv
<1>3. ConvertedInv'
  BY <1>1 DEF MountInv, ConvertedInv, CoreMade
<1>4. RequestInv'
  <2>1. /\ \A m : CoreRequest(m)' = CoreRequest(m)
        /\ \A m : LanguageRequest(m)' = LanguageRequest(m)
    BY Zenon, <1>1, RequestsStay
  <2> QED BY <1>1, <2>1 DEF MountInv, RequestInv, containerVars
<1>5. StagedInv'
  <2>1. \A p : Inspected(p, built[p])' <=> Inspected(p, built[p])
    BY Zenon, <1>1 DEF Inspected
  <2> QED BY <1>1, <2>1 DEF MountInv, StagedInv
<1> QED BY <1>2, <1>3, <1>4, <1>5 DEF MountInv

LEMMA MountStep ==
    LayoutInv /\ MountInv /\ [TreeNext]_<<treeVars, containerVars>> => MountInv'
BY Zenon, ReadingKeeps, BeginPackageKeeps, BuildPackageKeeps, BundleKeeps, PublishingKeeps,
   SurroundingsKeep DEF TreeNext

-----------------------------------------------------------------------------
(* What the two requests ask for.                                          *)

(* No two kinds share a resource id.                                       *)
LEMMA IdsDiffer ==
    \A k, l \in {"AUDIO_BANK", "SPRITE_SHEET", "UI_BITMAP", "LANGUAGE_BUNDLE", "FONT_ATLAS",
                 "FONT_MAP"} : IdOf[k] = IdOf[l] => k = l
BY TreeAssumption

(* The core's resources are of three kinds and depend on nothing.          *)
LEMMA CoreAsks ==
    \A r \in CoreResources :
       /\ r.kind \in {"AUDIO_BANK", "SPRITE_SHEET", "UI_BITMAP"} /\ r.id = IdOf[r.kind]
       /\ r.deps = {} /\ r.group \in 1..3 /\ resource_contract_allowed("core", r)
<1> SUFFICES ASSUME NEW r \in CoreResources
             PROVE  /\ r.kind \in {"AUDIO_BANK", "SPRITE_SHEET", "UI_BITMAP"}
                    /\ r.id = IdOf[r.kind] /\ r.deps = {} /\ r.group \in 1..3
                    /\ resource_contract_allowed("core", r)
  OBVIOUS
<1>1. \/ r = Resource("AUDIO_BANK", "sound", 2, {"STREAMABLE"}, {})
      \/ r = Resource("SPRITE_SHEET", "sprite", 3, {"STREAMABLE"}, {})
      \/ r = Resource("UI_BITMAP", "image", 1, {"PIN_ON_MOUNT"}, {})
  BY DEF CoreResources, Optional
<1>2. \/ /\ r.kind = "AUDIO_BANK" /\ r.group = 2 /\ r.align = AUDIO_ALIGNMENT
         /\ r.flags = {"REQUIRED", "STREAMABLE"}
      \/ /\ r.kind = "SPRITE_SHEET" /\ r.group = 3 /\ r.align = DEFAULT_ALIGNMENT
         /\ r.flags = {"REQUIRED", "STREAMABLE"}
      \/ /\ r.kind = "UI_BITMAP" /\ r.group = 1 /\ r.align = DEFAULT_ALIGNMENT
         /\ r.flags = {"REQUIRED", "PIN_ON_MOUNT"}
  BY <1>1 DEF Resource
<1>3. r.id = IdOf[r.kind] /\ r.deps = {}
  BY <1>1 DEF Resource
<1> QED BY <1>2, <1>3 DEF resource_contract_allowed, kind_allowed_in_role

(* The language's are of three kinds; its font map needs its atlas, which  *)
(* is there when the map is.                                               *)
LEMMA LanguageAsks ==
    /\ \E r \in LanguageResources : r.kind = "LANGUAGE_BUNDLE"
    /\ \A r \in LanguageResources :
          /\ r.kind \in {"LANGUAGE_BUNDLE", "FONT_ATLAS", "FONT_MAP"} /\ r.id = IdOf[r.kind]
          /\ r.group = 1 /\ resource_contract_allowed("language", r)
          /\ r.deps = {} \/ (/\ r.kind = "FONT_MAP" /\ r.deps = {IdOf["FONT_ATLAS"]}
                             /\ \E a \in LanguageResources : a.kind = "FONT_ATLAS")
<1>1. Resource("LANGUAGE_BUNDLE", "language", 1, {"PIN_ON_MOUNT"}, {}) \in LanguageResources
  BY DEF LanguageResources
<1>2. \E r \in LanguageResources : r.kind = "LANGUAGE_BUNDLE"
  BY <1>1 DEF Resource
<1>3. ASSUME NEW r \in LanguageResources
      PROVE  /\ r.kind \in {"LANGUAGE_BUNDLE", "FONT_ATLAS", "FONT_MAP"} /\ r.id = IdOf[r.kind]
             /\ r.group = 1 /\ resource_contract_allowed("language", r)
             /\ r.deps = {} \/ (/\ r.kind = "FONT_MAP" /\ r.deps = {IdOf["FONT_ATLAS"]}
                                /\ \E a \in LanguageResources : a.kind = "FONT_ATLAS")
  <2>1. \/ r = Resource("LANGUAGE_BUNDLE", "language", 1, {"PIN_ON_MOUNT"}, {})
        \/ r = Resource("FONT_ATLAS", "glyph", 1, {"PIN_ON_MOUNT"}, {})
        \/ /\ r = Resource("FONT_MAP", "glyph", 1, {"PIN_ON_MOUNT"}, {IdOf["FONT_ATLAS"]})
           /\ Present("glyph")
    BY DEF LanguageResources, Optional
  <2>2. /\ r.kind \in {"LANGUAGE_BUNDLE", "FONT_ATLAS", "FONT_MAP"} /\ r.id = IdOf[r.kind]
        /\ r.group = 1 /\ r.align = DEFAULT_ALIGNMENT
        /\ r.flags = {"REQUIRED", "PIN_ON_MOUNT"}
    BY <2>1 DEF Resource
  <2>3. resource_contract_allowed("language", r)
    BY <2>2 DEF resource_contract_allowed, kind_allowed_in_role
  <2>4. Present("glyph") => \E a \in LanguageResources : a.kind = "FONT_ATLAS"
    <3>1. Present("glyph") =>
             Resource("FONT_ATLAS", "glyph", 1, {"PIN_ON_MOUNT"}, {}) \in LanguageResources
      BY DEF LanguageResources, Optional
    <3> QED BY <3>1 DEF Resource
  <2>5. \/ r.deps = {}
        \/ r.kind = "FONT_MAP" /\ r.deps = {IdOf["FONT_ATLAS"]} /\ Present("glyph")
    BY <2>1 DEF Resource
  <2> QED BY <2>2, <2>3, <2>4, <2>5
<1> QED BY <1>2, <1>3

(* A package whose groups were made from its resources covers them.        *)
LEMMA GroupsMade ==
    ASSUME NEW file, NEW req, Describes(file, req), NEW G, NEW Ceiling,
           req.groups = {_group(g, req.resources, Ceiling[g]) : g \in G},
           \A r \in req.resources : r.group \in G
    PROVE  GroupsCover(file.body)
<1> DEFINE p == file.body
           ids(g) == {r.id : r \in {s \in req.resources : s.group = g}}
<1>1. /\ p.manifest.groups = req.groups /\ DOMAIN p.index = {r.id : r \in req.resources}
      /\ \A r \in req.resources : p.index[r.id].group = r.group
  BY DEF Describes
<1>2. \A g : /\ _group(g, req.resources, Ceiling[g]).id = g
            /\ _group(g, req.resources, Ceiling[g]).resource_ids = ids(g)
  BY DEF _group
<1>3. \A g \in p.manifest.groups : \A i \in g.resource_ids :
         i \in DOMAIN p.index /\ p.index[i].group = g.id
  <2> SUFFICES ASSUME NEW a \in p.manifest.groups, NEW i \in a.resource_ids
               PROVE  i \in DOMAIN p.index /\ p.index[i].group = a.id
    OBVIOUS
  <2>1. PICK g \in G : a = _group(g, req.resources, Ceiling[g])
    BY <1>1
  <2>2. i \in ids(g) /\ a.id = g
    BY <1>2, <2>1
  <2> QED BY <1>1, <2>2
<1>4. \A g, h \in p.manifest.groups : g.id = h.id => g = h
  <2> SUFFICES ASSUME NEW a \in p.manifest.groups, NEW b \in p.manifest.groups, a.id = b.id
               PROVE  a = b
    OBVIOUS
  <2>1. PICK g \in G : a = _group(g, req.resources, Ceiling[g])
    BY <1>1
  <2>2. PICK h \in G : b = _group(h, req.resources, Ceiling[h])
    BY <1>1
  <2>3. g = h
    BY <1>2, <2>1, <2>2
  <2> QED BY <2>1, <2>2, <2>3
<1>5. UNION {g.resource_ids : g \in p.manifest.groups} = DOMAIN p.index
  <2>1. ASSUME NEW r \in req.resources
        PROVE  \E g \in p.manifest.groups : r.id \in g.resource_ids
    <3>1. r.id \in ids(r.group) /\ r.group \in G
      OBVIOUS
    <3>2. _group(r.group, req.resources, Ceiling[r.group]) \in p.manifest.groups
      BY <1>1, <3>1
    <3> QED BY <1>2, <3>1, <3>2
  <2> QED BY <1>1, <1>3, <2>1
<1> QED BY <1>3, <1>4, <1>5 DEF GroupsCover

(* Mounting asks of an entry what it asks of the resource it was made for. *)
LEMMA EntriesAllowed ==
    ASSUME NEW file, NEW req, Describes(file, req),
           \A r \in req.resources :
              resource_contract_allowed(req.role, r) /\ r.id \notin r.deps
    PROVE  \A i \in DOMAIN file.body.index :
              /\ resource_contract_allowed(file.body.role, file.body.index[i])
              /\ i \notin file.body.index[i].deps
<1> SUFFICES ASSUME NEW r \in req.resources
             PROVE  /\ resource_contract_allowed(file.body.role, file.body.index[r.id])
                    /\ r.id \notin file.body.index[r.id].deps
  BY DEF Describes
<1> DEFINE e == file.body.index[r.id]
<1>1. /\ e.kind = r.kind /\ e.flags = r.flags /\ e.group = r.group /\ e.align = r.align
      /\ e.deps = r.deps /\ file.body.role = req.role
  BY DEF Describes
<1> HIDE DEF e
<1>2. resource_contract_allowed(req.role, r) /\ r.id \notin r.deps
  OBVIOUS
<1>3. resource_contract_allowed(file.body.role, e) /\ r.id \notin e.deps
  BY <1>1, <1>2 DEF resource_contract_allowed
<1> QED BY <1>3 DEF e

(* A package that inspects, and says what was asked, mounts under its row. *)
LEMMA PackageMounts ==
    ASSUME NEW file, NEW req, NEW row, NEW source, Describes(file, req), inspect_package(file),
           row = [package_id |-> file.body.manifest.id, role |-> file.body.role,
                  size |-> file.body.size, container_sha256 |-> file.container_sha256],
           req.source = source, GroupsCover(file.body), GroupsPopulated(file.body),
           CeilingsHold(file.body), BudgetsWithinCaps(file.body), CatalogFits(file.body),
           ManifestReadable(file.body), IndexReadable(file.body), IntervalsDisjoint(file.body),
           \A r \in req.resources :
              resource_contract_allowed(req.role, r) /\ r.id \notin r.deps
    PROVE  mount_package(file, row, source)
<1>1. \A i \in DOMAIN file.body.index :
         /\ resource_contract_allowed(file.body.role, file.body.index[i])
         /\ i \notin file.body.index[i].deps
  BY EntriesAllowed
<1>2. /\ row.role = file.body.role /\ row.size = file.body.size
      /\ row.package_id = file.body.manifest.id
      /\ row.container_sha256 = file.container_sha256
  OBVIOUS
<1>3. file.body.source = source
  BY DEF Describes
<1> QED BY <1>1, <1>2, <1>3 DEF mount_package, inspect_package, DigestsHold

(* No two payloads that are not empty begin at one byte, so the order in   *)
(* which the runtime sorts those that do does not matter.                  *)
LEMMA IntervalsFollow ==
    ASSUME NEW file, NEW req, Describes(file, req), PayloadsDisjoint(file.body),
           \A i \in DOMAIN file.body.index : file.body.index[i].size # 0
    PROVE  IntervalsDisjoint(file.body)
<1> DEFINE index == file.body.index
<1>1. \A i \in DOMAIN index : index[i].offset \in Nat /\ index[i].size \in Nat
  BY DEF Describes
<1> SUFFICES ASSUME NEW i \in DOMAIN index, NEW j \in DOMAIN index, i # j,
                    index[i].offset <= index[j].offset
             PROVE  index[i].offset + index[i].size <= index[j].offset
  BY DEF IntervalsDisjoint
<1>2. CASE index[i].offset < index[j].offset
  BY <1>2 DEF PayloadsDisjoint
<1>3. CASE index[i].offset = index[j].offset /\ index[i].size <= index[j].size
  BY <1>3 DEF PayloadsDisjoint
<1>4. CASE index[i].offset = index[j].offset /\ index[j].size <= index[i].size
  <2>1. index[j].offset + index[j].size <= index[i].offset
    BY <1>4 DEF PayloadsDisjoint
  <2>2. index[j].size # 0
    OBVIOUS
  <2> HIDE DEF index
  <2> QED BY <1>1, <1>4, <2>1, <2>2
<1> HIDE DEF index
<1> QED BY <1>1, <1>2, <1>3, <1>4

(* A descriptor is larger than its entry, so a catalog that fits its       *)
(* declared budget, and that the runtime's cap, is one the reader takes;   *)
(* and a ceiling that is a budget is below the largest resource.           *)
LEMMA LimitsFollow ==
    ASSUME NEW file, NEW req, Describes(file, req), req.budgets = DeclaredBudgets,
           file.body.count \in Nat, BudgetsWithinCaps(file.body), CatalogFits(file.body)
    PROVE  /\ IndexReadable(file.body)
           /\ \A pool \in {"texture", "audio", "sprite", "language_font"} :
                 Budgets[pool] <= MAX_STORED_BYTES
<1> DEFINE p == file.body
<1>1. p.metadataSize \in Nat /\ p.manifest.budgets = DeclaredBudgets
  BY DEF Describes
<1>2. \A pool \in Pools : /\ p.manifest.budgets[pool] = Budgets[pool]
                          /\ Budgets[pool] \in Nat
                          /\ Budgets[pool] <= resource_pool_limit[pool]
  BY <1>1, TreeAssumption DEF DeclaredBudgets, BudgetsWithinCaps
<1> HIDE DEF p
<1>3. p.manifest.budgets.metadata \in Nat /\ p.manifest.budgets.metadata <= kMaximumJsonBytes
  BY <1>2 DEF Pools, resource_pool_limit, kMaximumJsonBytes, MiB
<1>4. IndexReadable(p)
  <2>1. p.count \in Nat /\ p.metadataSize + p.count * DescriptorSize <= p.manifest.budgets.metadata
    BY DEF p, CatalogFits, RetainedMetadata
  <2>2. DescriptorSize \in Nat /\ 128 <= DescriptorSize
    BY TreeAssumption, MountAssumption DEF INDEX_ENTRY_SIZE
  <2>3. ASSUME NEW n \in Nat, NEW d \in Nat, 128 <= d
        PROVE  n * 128 <= n * d /\ n * 128 \in Nat /\ n * d \in Nat
    BY <2>3
  <2>4. /\ p.count * 128 <= p.count * DescriptorSize
        /\ p.count * 128 \in Nat /\ p.count * DescriptorSize \in Nat
    BY <2>1, <2>2, <2>3
  <2>5. kMaximumJsonBytes \in Nat
    BY DEF kMaximumJsonBytes, MiB
  <2>6. ASSUME NEW a \in Nat, NEW b \in Nat, NEW m \in Nat, NEW c \in Nat, NEW k \in Nat,
               a <= b, m + b <= c, c <= k
        PROVE  m + a <= k
    BY <2>6
  <2>7. p.metadataSize + p.count * 128 <= kMaximumJsonBytes
    BY <1>1, <1>3, <2>1, <2>4, <2>5, <2>6 DEF p
  <2> QED BY <2>7 DEF IndexReadable, INDEX_ENTRY_SIZE
<1>5. \A pool \in {"texture", "audio", "sprite", "language_font"} :
         Budgets[pool] <= MAX_STORED_BYTES
  BY <1>2 DEF Pools, resource_pool_limit, MiB, MAX_STORED_BYTES
<1> QED BY <1>4, <1>5 DEF p

(* The two packages as one family.                                         *)
LEMMA FamilyMounts ==
    ASSUME NEW core, NEW language, NEW k, NEW m,
           Describes(core, CoreRequest(k)), Describes(language, LanguageRequest(m)),
           core = built["core"], inspect_package(core), inspect_package(language)
    PROVE  validate_mounted_family(core, language)
<1> DEFINE c == core.body
           l == language.body
           entry(i) == IF i \in DOMAIN c.index THEN c.index[i] ELSE l.index[i]
<1>1. /\ c.role = "core" /\ DOMAIN c.index = {r.id : r \in CoreResources}
      /\ c.manifest.dependencies = {}
      /\ \A r \in CoreResources : /\ c.index[r.id].kind = r.kind /\ c.index[r.id].deps = r.deps
                                  /\ c.index[r.id].group = r.group
  BY DEF Describes, CoreRequest
<1>2. /\ l.role = "language" /\ DOMAIN l.index = {r.id : r \in LanguageResources}
      /\ l.manifest.dependencies = {[package_id |-> core.body.manifest.id,
                                     container_sha256 |-> core.container_sha256]}
      /\ \A r \in LanguageResources :
            /\ l.index[r.id].kind = r.kind /\ l.index[r.id].deps = r.deps
            /\ l.index[r.id].group = r.group
  BY DEF Describes, LanguageRequest
<1>3. c.manifest.id # l.manifest.id
  <2>1. /\ c.manifest.id = <<c.role, c.manifest.name, c.manifest.source>>
        /\ l.manifest.id = <<l.role, l.manifest.name, l.manifest.source>>
    BY DEF inspect_package, ManifestHolds, package_id
  <2> QED BY <1>1, <1>2, <2>1
<1>4. /\ \A i \in DOMAIN c.index :
            /\ c.index[i].kind \in {"AUDIO_BANK", "SPRITE_SHEET", "UI_BITMAP"}
            /\ i = IdOf[c.index[i].kind] /\ c.index[i].deps = {}
      /\ \A i \in DOMAIN l.index :
            /\ l.index[i].kind \in {"LANGUAGE_BUNDLE", "FONT_ATLAS", "FONT_MAP"}
            /\ i = IdOf[l.index[i].kind] /\ l.index[i].group = 1
            /\ l.index[i].deps = {} \/ (/\ l.index[i].kind = "FONT_MAP"
                                        /\ l.index[i].deps = {IdOf["FONT_ATLAS"]}
                                        /\ IdOf["FONT_ATLAS"] \in DOMAIN l.index)
  <2>1. ASSUME NEW r \in CoreResources
        PROVE  /\ c.index[r.id].kind \in {"AUDIO_BANK", "SPRITE_SHEET", "UI_BITMAP"}
               /\ r.id = IdOf[c.index[r.id].kind] /\ c.index[r.id].deps = {}
    BY <1>1, CoreAsks
  <2>2. ASSUME NEW r \in LanguageResources
        PROVE  /\ l.index[r.id].kind \in {"LANGUAGE_BUNDLE", "FONT_ATLAS", "FONT_MAP"}
               /\ r.id = IdOf[l.index[r.id].kind] /\ l.index[r.id].group = 1
               /\ l.index[r.id].deps = {} \/ (/\ l.index[r.id].kind = "FONT_MAP"
                                              /\ l.index[r.id].deps = {IdOf["FONT_ATLAS"]}
                                              /\ IdOf["FONT_ATLAS"] \in DOMAIN l.index)
    <3>1. /\ r.kind \in {"LANGUAGE_BUNDLE", "FONT_ATLAS", "FONT_MAP"} /\ r.id = IdOf[r.kind]
          /\ r.group = 1
          /\ r.deps = {} \/ (/\ r.kind = "FONT_MAP" /\ r.deps = {IdOf["FONT_ATLAS"]}
                             /\ \E a \in LanguageResources : a.kind = "FONT_ATLAS")
      BY LanguageAsks
    <3>2. \A a \in LanguageResources : a.id = IdOf[a.kind] /\ a.id \in DOMAIN l.index
      BY <1>2, LanguageAsks
    <3>3. (\E a \in LanguageResources : a.kind = "FONT_ATLAS") =>
             IdOf["FONT_ATLAS"] \in DOMAIN l.index
      BY <3>2
    <3> QED BY <1>2, <3>1, <3>3
  <2>3. /\ \A i \in DOMAIN c.index : \E r \in CoreResources : i = r.id
        /\ \A i \in DOMAIN l.index : \E r \in LanguageResources : i = r.id
    BY <1>1, <1>2
  <2> HIDE DEF c, l
  <2> QED BY <2>1, <2>2, <2>3
<1>5. \E i \in DOMAIN l.index : l.index[i].kind = "LANGUAGE_BUNDLE"
  <2>1. PICK r \in LanguageResources : r.kind = "LANGUAGE_BUNDLE"
    BY LanguageAsks
  <2> QED BY <1>2, <2>1
<1> HIDE DEF c, l
<1>6. DOMAIN c.index \cap DOMAIN l.index = {}
  BY <1>4, IdsDiffer
<1>7. Cardinality({i \in DOMAIN l.index : l.index[i].kind = "LANGUAGE_BUNDLE"}) = 1
  <2>1. {i \in DOMAIN l.index : l.index[i].kind = "LANGUAGE_BUNDLE"} =
           {IdOf["LANGUAGE_BUNDLE"]}
    BY <1>4, <1>5
  <2> QED BY <2>1, FS_Singleton
<1>8. ASSUME NEW i \in DOMAIN c.index \cup DOMAIN l.index, NEW d \in entry(i).deps
      PROVE  /\ d \in DOMAIN c.index \cup DOMAIN l.index /\ entry(d).group <= entry(i).group
             /\ dependency_kind_allowed(entry(i).kind, entry(d).kind)
  <2>1. i \notin DOMAIN c.index /\ entry(i) = l.index[i] /\ i \in DOMAIN l.index
    BY <1>4, <1>8
  <2>2. /\ l.index[i].kind = "FONT_MAP" /\ l.index[i].group = 1
        /\ d = IdOf["FONT_ATLAS"] /\ d \in DOMAIN l.index
    BY <1>4, <1>8, <2>1
  <2>3. entry(d) = l.index[d]
    BY <1>6, <2>2
  <2>4. l.index[d].kind = "FONT_ATLAS" /\ l.index[d].group = 1
    BY <1>4, <2>2, IdsDiffer
  <2> QED BY <2>1, <2>2, <2>3, <2>4 DEF dependency_kind_allowed
<1> HIDE DEF entry
<1>9. validate_mounted_family(core, language)
  BY <1>1, <1>2, <1>3, <1>6, <1>7, <1>8 DEF validate_mounted_family, c, l, entry
<1> QED BY <1>9

(* The tree the converter publishes is one the runtime mounts whole, for   *)
(* any files, sizes, budgets and edits, if it declares no budget above the *)
(* runtime's caps, manifests and catalogs fit with their descriptors, and  *)
(* no group of the core and no payload is empty (th3ds.cpp 810-1424,       *)
(* 1470-1686).                                                             *)
THEOREM PublishedTreesMount == TreeSpec => []PublishedMounts
<1>1. LayoutInv /\ MountInv => PublishedMounts
  <2> SUFFICES ASSUME MountInv, stage = "done", Mountable(published)
               PROVE  open_bundle(published)
    BY DEF PublishedMounts
  <2> DEFINE core == built["core"]
             language == built["language"]
  <2>1. PICK k : Describes(core, CoreRequest(k))
    BY DEF MountInv, BuiltInv, CoreMade
  <2>2. PICK m : Describes(language, LanguageRequest(m))
    BY DEF MountInv, BuiltInv, BothMade
  <2>3. /\ DOMAIN published = {"bundle", "core", "language"}
        /\ published["core"] = core /\ published["language"] = language
        /\ published["bundle"] = build_bundle_manifest
        /\ inspect_package(core) /\ inspect_package(language)
        /\ inspect_bundle(build_bundle_manifest)
    BY DEF MountInv, BuiltInv, StagedInv, Inspected
  <2>4. /\ build_bundle_manifest.value = BundleValue
        /\ BundleValue.source = source_set_digest
        /\ BundleValue.packages["core"] = Row("core")
        /\ BundleValue.packages["language"] = Row("language")
    BY DEF build_bundle_manifest, BundleValue
  <2>5. GroupsCover(core.body)
    <3>1. /\ CoreRequest(k).groups =
                {_group(g, CoreRequest(k).resources, CoreCeilings[g]) : g \in 1..3}
          /\ CoreRequest(k).resources = CoreResources
      BY DEF CoreRequest
    <3>2. \A r \in CoreRequest(k).resources : r.group \in 1..3
      BY <3>1, CoreAsks
    <3> HIDE DEF core
    <3> QED BY <2>1, <3>1, <3>2, GroupsMade
  <2>6. GroupsCover(language.body) /\ GroupsPopulated(language.body)
    <3> DEFINE ceiling == [g \in {1} |-> Budgets.language_font]
    <3>1. /\ LanguageRequest(m).resources = LanguageResources
          /\ LanguageRequest(m).groups = {_group(1, LanguageResources, Budgets.language_font)}
      BY DEF LanguageRequest
    <3>6. ceiling[1] = Budgets.language_font
      OBVIOUS
    <3>7. LanguageRequest(m).groups =
                {_group(g, LanguageRequest(m).resources, ceiling[g]) : g \in {1}}
      <4> HIDE DEF ceiling
      <4> QED BY <3>1, <3>6
    <3>2. GroupsCover(language.body)
      <4>1. \A r \in LanguageRequest(m).resources : r.group \in {1}
        BY <3>1, LanguageAsks
      <4>2. \A r \in LanguageRequest(m).resources : r.id = IdOf[r.kind]
        BY <3>1, LanguageAsks
      <4> HIDE DEF language, ceiling
      <4> QED BY <2>2, <3>7, <4>1, <4>2, GroupsMade
    <3>3. PICK r \in LanguageResources : r.group = 1
      BY LanguageAsks
    <3>4. r.id \in _group(1, LanguageResources, Budgets.language_font).resource_ids
      BY <3>3 DEF _group
    <3>5. language.body.manifest.groups = {_group(1, LanguageResources, Budgets.language_font)}
      BY <2>2, <3>1 DEF Describes
    <3> QED BY <3>2, <3>4, <3>5 DEF GroupsPopulated
  <2>7. /\ BudgetsWithinCaps(core.body) /\ BudgetsWithinCaps(language.body)
        /\ CatalogFits(core.body) /\ CatalogFits(language.body)
        /\ ManifestReadable(core.body) /\ ManifestReadable(language.body)
        /\ \A i \in DOMAIN core.body.index : core.body.index[i].size # 0
        /\ \A i \in DOMAIN language.body.index : language.body.index[i].size # 0
    BY <2>3 DEF Mountable
  <2>8. IntervalsDisjoint(core.body) /\ IntervalsDisjoint(language.body)
    <3>1. PayloadsDisjoint(core.body) /\ PayloadsDisjoint(language.body)
      BY <2>3, Zenon DEF inspect_package
    <3> HIDE DEF core, language
    <3> QED BY <2>1, <2>2, <2>7, <3>1, IntervalsFollow
  <2>9. /\ IndexReadable(core.body) /\ IndexReadable(language.body)
         /\ \A pool \in {"texture", "audio", "sprite", "language_font"} :
               Budgets[pool] <= MAX_STORED_BYTES
    <3> HIDE DEF core, language
    <3>1. core.body.count \in Nat /\ language.body.count \in Nat
      <4>1. core.body.count \in 1..MAX_RESOURCES /\ language.body.count \in 1..MAX_RESOURCES
        BY <2>3, Zenon DEF inspect_package
      <4> QED BY <4>1, CountIsNat
    <3>2. /\ CoreRequest(k).budgets = DeclaredBudgets
          /\ LanguageRequest(m).budgets = DeclaredBudgets
      BY DEF CoreRequest, LanguageRequest
    <3> QED BY <2>1, <2>2, <2>7, <3>1, <3>2, LimitsFollow
  <2>10. CeilingsHold(core.body) /\ CeilingsHold(language.body)
    <3>1. core.body.manifest.groups =
             {_group(g, CoreResources, CoreCeilings[g]) : g \in 1..3}
      BY <2>1 DEF Describes, CoreRequest
    <3>2. language.body.manifest.groups = {_group(1, LanguageResources, Budgets.language_font)}
      BY <2>2 DEF Describes, LanguageRequest
    <3>3. \A g \in 1..3 : CoreCeilings[g] <= MAX_STORED_BYTES
      BY <2>9 DEF CoreCeilings
    <3>4. \A g, resources, ceiling : _group(g, resources, ceiling).decoded_ceiling = ceiling
      BY DEF _group
    <3> HIDE DEF core, language
    <3> QED BY <2>9, <3>1, <3>2, <3>3, <3>4 DEF CeilingsHold
  <2>11. mount_package(core, Row("core"), source_set_digest)
    <3>1. /\ CoreRequest(k).resources = CoreResources /\ CoreRequest(k).role = "core"
          /\ CoreRequest(k).source = source_set_digest
      BY DEF CoreRequest
    <3>2. Row("core") = [package_id |-> core.body.manifest.id, role |-> core.body.role,
                         size |-> core.body.size, container_sha256 |-> core.container_sha256]
      BY DEF Row
    <3>3. GroupsPopulated(core.body)
      BY <2>3 DEF Mountable
    <3>4. \A r \in CoreResources :
             resource_contract_allowed("core", r) /\ r.id \notin r.deps
      BY CoreAsks
    <3> HIDE DEF core
    <3> QED BY <2>1, <2>3, <2>5, <2>7, <2>8, <2>9, <2>10, <3>1, <3>2, <3>3, <3>4,
               PackageMounts
  <2>12. mount_package(language, Row("language"), source_set_digest)
    <3>1. /\ LanguageRequest(m).resources = LanguageResources
          /\ LanguageRequest(m).role = "language"
          /\ LanguageRequest(m).source = source_set_digest
      BY DEF LanguageRequest
    <3>2. Row("language") = [package_id |-> language.body.manifest.id,
                             role |-> language.body.role, size |-> language.body.size,
                             container_sha256 |-> language.container_sha256]
      BY DEF Row
    <3>3. \A r \in LanguageResources :
             resource_contract_allowed("language", r) /\ r.id \notin r.deps
      BY LanguageAsks, IdsDiffer
    <3> HIDE DEF language
    <3> QED BY <2>2, <2>3, <2>6, <2>7, <2>8, <2>9, <2>10, <3>1, <3>2, <3>3, PackageMounts
  <2>13. validate_mounted_family(core, language)
    BY <2>1, <2>2, <2>3, FamilyMounts
  <2>14. /\ RetainedMetadata(core.body) + RetainedMetadata(language.body)
               <= resource_pool_limit.metadata
         /\ BundleSize \in 1..kMaximumJsonBytes
    BY <2>3, MountAssumption DEF Mountable
  <2> HIDE DEF core, language
  <2>15. \A p \in {"core", "language"} :
            mount_package(published[p], BundleValue.packages[p], BundleValue.source)
    BY <2>3, <2>4, <2>11, <2>12
  <2> QED BY <2>3, <2>4, <2>13, <2>14, <2>15 DEF open_bundle
<1>2. ConverterInit => LayoutInv /\ MountInv
  BY LayoutInit, MountInit DEF ConverterInit
<1>3. LayoutInv /\ MountInv /\ [TreeNext]_<<treeVars, containerVars>> => LayoutInv' /\ MountInv'
  BY StepKeeps, MountStep
<1> QED BY <1>1, <1>2, <1>3, PTL DEF TreeSpec
=============================================================================
