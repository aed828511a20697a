---------------------------- MODULE CatalogRules ----------------------------
(***************************************************************************)
(* What a catalog's configuration means: which configurations start the    *)
(* service (services/bootstrap/env/validate.go), who sees a catalog        *)
(* (services/usecase/catalog.go), and which packages and versions of an    *)
(* index are shown (services/adapters/helm).                               *)
(*                                                                         *)
(* A regular expression is the set of values it matches; a version is its  *)
(* first two numbers and the rest.                                         *)
(***************************************************************************)
EXTENDS Integers, Sequences, FiniteSets

CONSTANTS
    CatalogIds, PackageNames,
    Users, Anonymous,
    Keys, NoKey,            \* user attributes
    Values,                 \* what they may hold
    NoMatch, BadPattern,    \* an empty expression, one that does not compile
    Minors, NoMinor,        \* NoMinor: a version without a dot
    NoVersion,              \* an index entry without a version
    NoMax,
    Attributes              \* the attributes of each user, and their values

Version == [minor: Minors \cup {NoMinor}, rest: Nat]
Patterns == {NoMatch, BadPattern} \cup SUBSET Values
Restriction == [key: Keys \cup {NoKey}, match: Patterns]

(* well_formed: the fields checked apart from those modelled here.         *)
CatalogConfig ==
    [id: CatalogIds, type: {"helm", "oci"}, wellFormed: BOOLEAN,
     mode: {"all", "latest", "skipPatches", "maxNumber"}, max: {NoMax} \cup Int,
     restrictions: SUBSET Restriction, excluded: SUBSET PackageNames,
     packages: Seq([name: PackageNames, versions: Seq(Version)])]

ASSUME RulesAssumption ==
    /\ Anonymous \notin Users /\ NoKey \notin Keys /\ NoMinor \notin Minors
    /\ NoVersion \notin Version /\ NoMax \notin Int
    /\ \A S \in SUBSET Values : S \notin {NoMatch, BadPattern}
    /\ \A u \in Users : DOMAIN Attributes[u] \subseteq Keys
    /\ \A u \in Users : \A k \in DOMAIN Attributes[u] : Attributes[u][k] \subseteq Values

-----------------------------------------------------------------------------
(* Start-up.                                                               *)

(* Mutant: any bound will do.                                              *)
validateCommonAnyMax(c) ==
    /\ c.wellFormed
    /\ (c.mode = "maxNumber") = (c.max # NoMax)
    /\ \A r \in c.restrictions : r.key # NoKey /\ r.match # BadPattern

validateCommon(c) ==
    /\ c.wellFormed
    /\ IF c.mode = "maxNumber" THEN c.max # NoMax /\ c.max > 0 ELSE c.max = NoMax
    /\ \A r \in c.restrictions : r.key # NoKey /\ r.match # BadPattern

ValidateCatalogConfig(c) ==
    /\ validateCommon(c)
    /\ (c.type = "oci") = (c.packages # <<>>)

ValidateCatalogsConfig(config) ==
    /\ \A i \in DOMAIN config : ValidateCatalogConfig(config[i])
    /\ \A i, j \in DOMAIN config : config[i].id = config[j].id => i = j

-----------------------------------------------------------------------------
(* Who sees a catalog.                                                     *)

Grants(r, u) ==
    /\ r.key # NoKey /\ r.match \notin {NoMatch, BadPattern}
    /\ r.key \in DOMAIN Attributes[u]
    /\ Attributes[u][r.key] \cap r.match # {}

(* ListPublicCatalogs and ListUserCatalogs.                                *)
Included(c, u) ==
    \/ c.restrictions = {}
    \/ u # Anonymous /\ \E r \in c.restrictions : Grants(r, u)

-----------------------------------------------------------------------------
(* Versions.  An index maps package names to sequences of versions, newest *)
(* first.                                                                  *)

keepVersion(kept, v) == IF v = NoVersion THEN kept ELSE Append(kept, v)

extractVersions(list) ==
    LET out[i \in 0 .. Len(list)] ==
          IF i = 0 THEN <<>> ELSE keepVersion(out[i - 1], list[i])
    IN  out[Len(list)]

(* Mutant: only consecutive patches of a minor are skipped.                *)
skipPatchesAdjacent(versions) ==
    LET out[i \in 0 .. Len(versions)] ==
          IF i = 0 THEN <<>>
          ELSE IF i > 1 /\ versions[i].minor # NoMinor /\ versions[i-1].minor = versions[i].minor
               THEN out[i - 1]
               ELSE Append(out[i - 1], versions[i])
    IN  out[Len(versions)]

(* seen: the minors of the versions kept so far.                           *)
skipPatch(kept, v) ==
    IF v.minor # NoMinor /\ \E k \in DOMAIN kept : kept[k].minor = v.minor
    THEN kept
    ELSE Append(kept, v)

skipPatches(versions) ==
    LET out[i \in 0 .. Len(versions)] ==
          IF i = 0 THEN <<>> ELSE skipPatch(out[i - 1], versions[i])
    IN  out[Len(versions)]

(* A slice with a negative bound, and mustVersionFilter without a bound.   *)
FilterPanics(c, versions) ==
    c.mode = "maxNumber" /\ (c.max = NoMax \/ c.max < 0)

apply(c, versions) ==
    CASE c.mode = "latest"      -> IF versions = <<>> THEN versions ELSE SubSeq(versions, 1, 1)
      [] c.mode = "skipPatches" -> skipPatches(versions)
      [] c.mode = "maxNumber"   -> IF c.max >= Len(versions) THEN versions
                                   ELSE SubSeq(versions, 1, c.max)
      [] OTHER                  -> versions

(* What the mode says of all versions of an index: the positions of those  *)
(* to show, and where among the elements of a set of positions i is.       *)
Shown(c, all) ==
    CASE c.mode = "latest"      -> {i \in DOMAIN all : i = 1}
      [] c.mode = "maxNumber"   -> {i \in DOMAIN all : i <= c.max}
      [] c.mode = "skipPatches" ->
            {i \in DOMAIN all : all[i].minor = NoMinor \/
                \A j \in 1 .. (i - 1) : all[j].minor # all[i].minor}
      [] OTHER                  -> DOMAIN all
Rank(i, S) == Cardinality({j \in S : j <= i})
FollowsMode(c, versions, kept) ==
    /\ Len(kept) = Cardinality(Shown(c, versions))
    /\ \A i \in Shown(c, versions) : kept[Rank(i, Shown(c, versions))] = versions[i]

-----------------------------------------------------------------------------
(* Packages, of an index or of an OCI catalog's configuration.             *)

listHelmPackages(c, index) ==
    {n \in PackageNames : index[n] # <<>> /\ n \notin c.excluded}

listOCIPackages(c) ==
    {c.packages[i].name : i \in DOMAIN c.packages} \ c.excluded

(* The first package of that name: its position, 0 when there is none.     *)
ociPackage(c, n) ==
    LET named == {i \in DOMAIN c.packages : c.packages[i].name = n}
    IN  IF named = {} THEN 0 ELSE CHOOSE i \in named : \A j \in named : i <= j

resolveOCIPackage(c, n, v) ==
    LET p == ociPackage(c, n) IN
    p # 0 /\ \E k \in DOMAIN c.packages[p].versions : c.packages[p].versions[k] = v

(* Mutant: only the newest version is looked at.                           *)
resolveHelmPackageNewest(index, n, v) == index[n] # <<>> /\ index[n][1] = v

resolveHelmPackage(index, n, v) == \E k \in DOMAIN index[n] : index[n][k] = v
=============================================================================
