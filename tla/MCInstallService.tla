-------------------------- MODULE MCInstallService --------------------------
(***************************************************************************)
(* Instances of InstallService for TLC: two users, a release id and a name *)
(* they may both ask for, a package the catalogs offer and one they do not.*)
(***************************************************************************)
EXTENDS InstallService, TLC

CONSTANTS alice, bob, jupyter, unknown, id1, id2, name1, name2, shared

Ask(u, p, i, n) == [user |-> u, pkg |-> p, id |-> i, name |-> n, ns |-> shared]
Post(u, p, i, n) == [user |-> u, pkg |-> p, id |-> i, name |-> n]

(* One id asked for by two users, one name with two ids, a package that    *)
(* does not resolve, and a request without a name.                         *)
MCStartRequests ==
    {Ask(alice, jupyter, id1, name1), Ask(bob, jupyter, id1, name2),
     Ask(bob, jupyter, id2, name1), Ask(alice, unknown, id1, name1),
     Ask(alice, jupyter, id2, NoName)}
MCHttpRequests == {Post(alice, jupyter, id1, name1), Post(alice, NoPackage, id1, name1)}

OneStart == {Ask(alice, jupyter, id1, name1)}
OnePost == {Post(alice, jupyter, id1, name1)}
=============================================================================
