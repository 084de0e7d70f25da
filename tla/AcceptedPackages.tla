-------------------------- MODULE AcceptedPackages --------------------------
(***************************************************************************)
(* Accepted Path Packages: an operator builds and publishes paths, exports *)
(* each as a file whose digest a manifest keeps, and seeds an empty        *)
(* database from the files.  Exports run beside regenerations, beside one  *)
(* another and beside a seed; any of them may die between two steps.       *)
(*                                                                         *)
(* A generation of lessons or of items is known by a number never used     *)
(* again, and so is the one concept some paths share; the asset-set        *)
(* identity of a path is the pair of generations it hashes.  The rows that *)
(* carry a lesson's sections and an item's options are kept apart: the     *)
(* identity does not cover them.                                           *)
(***************************************************************************)
EXTENDS Integers, FiniteSets

CONSTANTS Path,      \* the fixtures of the manifest
          Exporter,  \* export commands at a time
          MaxStamp   \* bound: numbers given to generations and concepts

ASSUME ThereAreFixtures == Path # {}

VARIABLES layers,    \* what the database stores of each path
          entries,   \* source_expedition_catalog_entries: the accepted identity
          files,     \* the package files
          digests,   \* the packages the manifest names
          exports,   \* the export commands
          seed,      \* the seed or install command
          sharing,   \* the paths that mention the shared concept
          sanctioned,\* history: identities an operator published
          alone,     \* history: an entry came without the others since the last reset
          stamp,     \* the next number
          errands    \* bound: commands still allowed

packageVars == <<layers, entries, files, digests, exports, seed, sharing, sanctioned, alone, stamp, errands>>

Unset == <<0, 0>>
NoLayer == [pair |-> Unset, sections |-> {}, options |-> {}, concept |-> 0]
NoPackage == [header |-> Unset, rows |-> NoLayer]
AnyPath == CHOOSE p \in Path : TRUE
NoExport == [at |-> "idle", path |-> AnyPath, manifest |-> <<>>,
             header |-> Unset, left |-> {}, rows |-> NoLayer]
NoSeed == [at |-> "idle", set |-> <<>>, checked |-> {}]

Stored(p) == layers[p] # NoLayer
Registry == {layers[p].concept : p \in Path} \ {0}

\* qualify: a lesson needs a section, an item its keyed option.
Qualifies(p) ==
  Stored(p) /\ layers[p].pair[1] \in layers[p].sections /\ layers[p].pair[2] \in layers[p].options

Errand == errands > 0 /\ errands' = errands - 1

-----------------------------------------------------------------------------
(* The operator's pipeline.  One path is built once per database: the hash of *)
(* its source is unique.  A generation replaces the lessons, then the items;  *)
(* rows it supersedes stay, with theirs.                                      *)

Fresh(p, n) == [pair |-> <<n, n>>, sections |-> {n}, options |-> {n},
                concept |-> IF p \in sharing THEN n ELSE 0]

BuildPath(p) ==
  LET concept == IF p \in sharing /\ Registry # {} THEN CHOOSE c \in Registry : TRUE
                 ELSE Fresh(p, stamp).concept
  IN  /\ ~Stored(p) /\ stamp <= MaxStamp /\ Errand
      /\ stamp' = stamp + 1
      /\ layers' = [layers EXCEPT ![p] =
           [Fresh(p, stamp) EXCEPT !.concept = concept]]
      /\ UNCHANGED <<entries, files, digests, exports, seed, sharing, sanctioned, alone>>

RenewLessons(p) ==
  /\ Stored(p) /\ layers[p].pair[2] >= layers[p].pair[1] /\ stamp <= MaxStamp /\ Errand
  /\ stamp' = stamp + 1
  /\ layers' = [layers EXCEPT ![p].pair[1] = stamp, ![p].sections = @ \cup {stamp}]
  /\ UNCHANGED <<entries, files, digests, exports, seed, sharing, sanctioned, alone>>

RenewItems(p) ==
  /\ Stored(p) /\ layers[p].pair[1] > layers[p].pair[2]
  /\ layers' = [layers EXCEPT ![p].pair[2] = layers[p].pair[1], ![p].options = @ \cup {layers[p].pair[1]}]
  /\ UNCHANGED <<entries, files, digests, exports, seed, sharing, sanctioned, alone, stamp, errands>>

\* publishAccepted, which may replace the entry; SourceExpedition has its reads.
Sanction(p) ==
  /\ Qualifies(p) /\ entries[p] # layers[p].pair /\ Errand
  /\ entries' = [entries EXCEPT ![p] = layers[p].pair]
  /\ sanctioned' = sanctioned \cup {<<p, layers[p].pair>>}
  /\ alone' = (alone \/ entries[p] = Unset)
  /\ UNCHANGED <<layers, files, digests, exports, seed, sharing, stamp>>

-----------------------------------------------------------------------------
(* Export: the manifest is read, the entry is compared with a qualification,  *)
(* every table is read by a query of its own, the package is sealed, and the  *)
(* manifest is written back with one digest changed.                          *)

OutsideExport == UNCHANGED <<layers, entries, seed, sharing, sanctioned, alone, stamp>>

BeginExport(x, p) ==
  /\ exports[x].at = "idle" /\ Errand
  /\ Qualifies(p) /\ entries[p] = layers[p].pair
  /\ exports' = [exports EXCEPT ![x] =
       [at |-> "reading", path |-> p, manifest |-> digests, header |-> entries[p],
        left |-> {"entry", "lessons", "sections", "items", "options"}, rows |-> NoLayer]]
  /\ OutsideExport /\ UNCHANGED <<files, digests>>

\* A row set is read; the sections and options of the selected rows are kept.
Took(j, table) ==
  LET now == layers[j.path] IN
  CASE table = "lessons"  -> [j EXCEPT !.rows.pair[1] = now.pair[1]]
    [] table = "items"    -> [j EXCEPT !.rows.pair[2] = now.pair[2]]
    [] table = "sections" -> [j EXCEPT !.rows.sections = now.sections \cap {j.header[1]}]
    [] table = "options"  -> [j EXCEPT !.rows.options = now.options \cap {j.header[2]}]
    [] OTHER -> IF entries[j.path] = j.header THEN [j EXCEPT !.rows.concept = now.concept]
                ELSE NoExport

ReadTable(x, table) ==
  /\ exports[x].at = "reading" /\ table \in exports[x].left
  /\ exports' = [exports EXCEPT ![x] = Took([exports[x] EXCEPT !.left = @ \ {table}], table)]
  /\ OutsideExport /\ UNCHANGED <<files, digests, errands>>

\* validateQualificationRows: the lessons and items it names are current.
Sealable(j) == j.rows.pair = j.header

SealPackage(x) ==
  LET j == exports[x] IN
  /\ j.at = "reading" /\ j.left = {}
  /\ IF Sealable(j)
     THEN /\ files' = [files EXCEPT ![j.path] = [header |-> j.header, rows |-> j.rows]]
          /\ exports' = [exports EXCEPT ![x].at = "sealed"]
     ELSE files' = files /\ exports' = [exports EXCEPT ![x] = NoExport]
  /\ OutsideExport /\ UNCHANGED <<digests, errands>>

\* Another export may have written the manifest since this one has read it.
WriteManifest(x) ==
  LET j == exports[x] IN
  /\ j.at = "sealed"
  /\ digests' = [j.manifest EXCEPT ![j.path] = [header |-> j.header, rows |-> j.rows]]
  /\ exports' = [exports EXCEPT ![x] = NoExport]
  /\ OutsideExport /\ UNCHANGED <<files, errands>>

ExportDies(x) ==
  /\ exports[x].at # "idle" /\ exports' = [exports EXCEPT ![x] = NoExport]
  /\ OutsideExport /\ UNCHANGED <<files, digests, errands>>

-----------------------------------------------------------------------------
(* Seed and install.  The files are validated, the schemas are dropped and    *)
(* migrated, the files are loaded and validated again, their rows installed,  *)
(* each path qualified, and all entries written in one transaction.           *)

Named == {p \in Path : digests[p] # NoPackage}

\* validateAcceptedPathPackageSet: label and domain have one concept id.
ConceptsAgree(set) == Cardinality({set[p].rows.concept : p \in DOMAIN set} \ {0}) <= 1

\* loadValidatedPackages
ValidSet(complete) ==
  /\ Named # {} /\ (complete => Named = Path)
  /\ \A p \in Named : files[p] = digests[p]
  /\ ConceptsAgree([p \in Named |-> files[p]])

Loaded == [NoSeed EXCEPT !.at = "loaded", !.set = [p \in Named |-> files[p]]]
OutsideSeed == UNCHANGED <<files, digests, exports, sharing, sanctioned, stamp>>

BeginSeed ==
  /\ seed.at = "idle" /\ ValidSet(TRUE) /\ Errand
  /\ seed' = [NoSeed EXCEPT !.at = "validated"]
  /\ OutsideSeed /\ UNCHANGED <<layers, entries, alone>>

ResetDatabase ==
  /\ seed.at = "validated" /\ seed' = [seed EXCEPT !.at = "reset"]
  /\ layers' = [p \in Path |-> NoLayer] /\ entries' = [p \in Path |-> Unset] /\ alone' = FALSE
  /\ OutsideSeed /\ UNCHANGED errands

LoadPackages ==
  /\ seed.at = "reset" /\ seed' = IF ValidSet(TRUE) THEN Loaded ELSE NoSeed
  /\ OutsideSeed /\ UNCHANGED <<layers, entries, alone, errands>>

\* accepted-paths install, with --allow-partial or without, resets nothing.
BeginInstall(complete) ==
  /\ seed.at = "idle" /\ ValidSet(complete) /\ Errand
  /\ seed' = Loaded
  /\ OutsideSeed /\ UNCHANGED <<layers, entries, alone>>

\* Rows are inserted as they are: an id, a source hash or a concept label that
\* is there already fails the transaction.
Fits(set) ==
  /\ \A p \in DOMAIN set : ~Stored(p)
  /\ ConceptsAgree(set)
  /\ \A p \in DOMAIN set : set[p].rows.concept # 0 => Registry = {}

InstallRows ==
  /\ seed.at = "loaded"
  /\ IF Fits(seed.set)
     THEN /\ layers' = [p \in Path |-> IF p \in DOMAIN seed.set THEN seed.set[p].rows ELSE layers[p]]
          /\ seed' = [seed EXCEPT !.at = "installed"]
     ELSE layers' = layers /\ seed' = NoSeed
  /\ OutsideSeed /\ UNCHANGED <<entries, alone, errands>>

MutantQualified(p) == layers[p].pair = seed.set[p].header  \* the sealed qualification is trusted

\* qualify and assertInstalledQualification
InstalledQualifies(p) == Qualifies(p) /\ layers[p].pair = seed.set[p].header

QualifyInstalled(p) ==
  /\ seed.at = "installed" /\ p \in DOMAIN seed.set \ seed.checked
  /\ seed' = IF InstalledQualifies(p) THEN [seed EXCEPT !.checked = @ \cup {p}] ELSE NoSeed
  /\ OutsideSeed /\ UNCHANGED <<layers, entries, alone, errands>>

MutantPublished(set) ==    \* each entry is written when its own assets match
  {p \in DOMAIN set : layers[p].pair = set[p].header /\ entries[p] = Unset}

\* publishCatalogProjections: every path's assets are current and none has an
\* entry, or the transaction writes none.
PublishedBy(set) ==
  IF \A p \in DOMAIN set : layers[p].pair = set[p].header /\ entries[p] = Unset
  THEN DOMAIN set ELSE {}

PublishEntries ==
  LET set == seed.set IN
  /\ seed.at = "installed" /\ seed.checked = DOMAIN set /\ seed' = NoSeed
  /\ entries' = [p \in Path |-> IF p \in PublishedBy(set) THEN set[p].header ELSE entries[p]]
  /\ alone' = (alone \/ DOMAIN set # Path)
  /\ OutsideSeed /\ UNCHANGED <<layers, errands>>

SeedDies ==
  /\ seed.at # "idle" /\ seed' = NoSeed
  /\ OutsideSeed /\ UNCHANGED <<layers, entries, alone, errands>>

-----------------------------------------------------------------------------
\* An empty database; one where every path was built, published and exported;
\* or that one reset, with a path built and published anew since.
PackagesInit(begun, limit) ==  \* begun is "empty", "whole" or "rebuilt"
  LET anew(p) == begun = "rebuilt" /\ p = AnyPath
      number(p) == IF anew(p) THEN 2 ELSE 1
      there(p) == begun = "whole" \/ anew(p)
  IN  /\ sharing \in {{}, Path}
      /\ layers = [p \in Path |-> IF there(p) THEN Fresh(p, number(p)) ELSE NoLayer]
      /\ entries = [p \in Path |-> layers[p].pair]
      /\ files = [p \in Path |-> IF begun = "empty" THEN NoPackage
                                 ELSE [header |-> <<1, 1>>, rows |-> Fresh(p, 1)]]
      /\ digests = files
      /\ exports = [x \in Exporter |-> NoExport] /\ seed = NoSeed
      /\ sanctioned = IF begun = "empty" THEN {}
                      ELSE (Path \X {<<1, 1>>}) \cup {<<p, entries[p]>> : p \in {q \in Path : there(q)}}
      /\ alone = (begun # "empty")
      /\ stamp = 3 /\ errands = limit

PackagesNext ==
  \/ \E p \in Path : BuildPath(p) \/ RenewLessons(p) \/ RenewItems(p) \/ Sanction(p)
  \/ \E x \in Exporter :
       \/ \E p \in Path : BeginExport(x, p)
       \/ \E table \in exports[x].left : ReadTable(x, table)
       \/ SealPackage(x) \/ WriteManifest(x) \/ ExportDies(x)
  \/ BeginSeed \/ ResetDatabase \/ LoadPackages \/ (\E c \in BOOLEAN : BeginInstall(c))
  \/ InstallRows \/ (\E p \in Path : QualifyInstalled(p)) \/ PublishEntries \/ SeedDies

PackagesSpec ==
  /\ \E begun \in {"empty", "whole", "rebuilt"}, limit \in Nat : PackagesInit(begun, limit)
  /\ [][PackagesNext]_packageVars

-----------------------------------------------------------------------------
(* Correctness. *)

\* What the catalog offers was published by an operator once, and while its
\* assets are current no section or option of theirs is missing, even when a
\* package was sealed from tables read on both sides of a reset.
OfferedIsWhole ==
  \A p \in Path : entries[p] # Unset =>
    <<p, entries[p]>> \in sanctioned /\ Stored(p) /\ (layers[p].pair = entries[p] => Qualifies(p))

\* Unless an operator published a path by itself, the catalog is complete or
\* empty: a seed that is refused or dies half way offers no part of the set.
SeededTogether ==
  ~alone => (\A p \in Path : entries[p] # Unset) \/ (\A p \in Path : entries[p] = Unset)
=============================================================================
