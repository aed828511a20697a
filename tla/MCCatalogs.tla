----------------------------- MODULE MCCatalogs -----------------------------
(***************************************************************************)
(* Instances of Catalogs for TLC: a public and a restricted Helm catalog   *)
(* and an OCI catalog, under configurations of each mode and some that must*)
(* not start; repositories that publish a second index.                    *)
(***************************************************************************)
EXTENDS Catalogs, TLC

CONSTANTS public, restricted, registry, jupyter, rstudio, alice, bob, team, ssp

v(m, r) == [minor |-> m, rest |-> r]
bare == [minor |-> NoMinor, rest |-> 0]
MCMinors == {10, 11, 12}

MCAttributes == alice :> (team :> {ssp}) @@ bob :> <<>>

Helm(i, mode, max) ==
    [id |-> i, type |-> "helm", wellFormed |-> TRUE, mode |-> mode, max |-> max,
     restrictions |-> {}, excluded |-> {}, packages |-> <<>>]
Oci(i) ==
    [Helm(i, "all", NoMax) EXCEPT !.type = "oci",
        !.packages = <<[name |-> jupyter, versions |-> <<v(11, 0), v(10, 0)>>]>>]
For(c, match) == [c EXCEPT !.restrictions = {[key |-> team, match |-> match]}]
Without(c, n) == [c EXCEPT !.excluded = {n}]

(* The restricted catalog first, in the middle, hidden from all by an empty*)
(* expression; each mode; and what ValidateCatalogsConfig refuses.         *)
MCConfigurations == {
    <<For(Helm(restricted, "latest", NoMax), {ssp}), Oci(registry),
      Without(Helm(public, "skipPatches", NoMax), rstudio)>>,
    <<Helm(public, "maxNumber", 2), For(Helm(restricted, "all", NoMax), NoMatch)>>,
    <<Helm(public, "maxNumber", -1)>>,
    <<Helm(public, "maxNumber", NoMax)>>,
    <<Helm(public, "all", NoMax), Oci(public)>>,
    <<For(Helm(public, "all", NoMax), BadPattern)>>}

MCEntries == <<
    [i \in CatalogIds |-> (jupyter :> <<v(11, 1), v(10, 3), v(11, 0), bare, NoVersion, v(10, 2)>>)
                          @@ (rstudio :> <<>>)],
    [i \in CatalogIds |-> (jupyter :> <<v(12, 0), v(11, 1), v(11, 0)>>)
                          @@ (rstudio :> <<v(10, 0)>>)] >>

List(u) == [op |-> "list", user |-> u]
Package(i, n) == [op |-> "package", id |-> i, name |-> n]
Resolve(i, n, x) == [op |-> "resolve", id |-> i, name |-> n, version |-> x]

(* Nobody gets past the security handler without a token: ListPublicCatalogs*)
(* has other callers only.                                                 *)
MCCalls == {List(Anonymous)}

MCRequests ==
    {List(alice), List(bob), List(Anonymous)}
    \cup {Package(i, jupyter) : i \in CatalogIds} \cup {Package(public, rstudio)}
    \cup {Resolve(public, jupyter, v(11, 1)), Resolve(registry, jupyter, v(10, 0))}

WithoutVersion == {Resolve(public, jupyter, Latest)}

Sym == Permutations(Handlers)
=============================================================================
