---------------------------- MODULE ConfigLoading ----------------------------
(***************************************************************************)
(* How a service gets its configuration: embedded defaults, a file over    *)
(* them, environment variables over both                                   *)
(* (internal/configloader/configloader.go, services/bootstrap/env).        *)
(*                                                                         *)
(* A source is a function from keys, as somebody wrote them, to settings;  *)
(* a key names a leaf, a list is one leaf.  Viper folds all keys to lower  *)
(* case, those of the maps inside a list too; that, and the conversion of  *)
(* texts, are external.                                                    *)
(***************************************************************************)
EXTENDS Naturals, Sequences

CONSTANTS
    Lower,      \* a key as written -> in lower case
    EnvName,    \* a key in lower case -> the environment variable for it
    Numeral,    \* a text that is a number -> the number
    Split       \* a text -> its parts between commas

Text(s) == [text |-> s]
Items(texts) == [items |-> texts]
CatalogList(catalogs) == [catalogs |-> catalogs]

ASSUME LowerAssumption ==
    \A w \in DOMAIN Lower : Lower[w] \in DOMAIN Lower /\ Lower[Lower[w]] = Lower[w]

-----------------------------------------------------------------------------
(* The ways to choose one element of each set.                             *)
Choices(sets) ==
    {f \in [DOMAIN sets -> UNION {sets[k] : k \in DOMAIN sets}] :
        \A k \in DOMAIN sets : f[k] \in sets[k]}

(* A map is copied, and the order of a Go map decides which of the keys    *)
(* that are folded to one is the last.  The outermost map is folded in     *)
(* place: there a key in lower case loses to one that is folded to it.     *)
TopLevel == {"authenticationmode", "catalogs"}
Winners(f, k) ==
    LET written == {w \in DOMAIN f : Lower[w] = k}
    IN  IF k \in TopLevel /\ written # {k} THEN written \ {k} ELSE written

(* What a map may become.                                                  *)
FoldKeys(f) ==
    {[k \in DOMAIN winner |-> f[winner[k]]] :
        winner \in Choices([k \in {Lower[w] : w \in DOMAIN f} |-> Winners(f, k)])}

(* Mutant: the keys of the maps in a list stay as they are written.        *)
FoldCatalogNot(c) == {c}

WithTexts(c, name, description) == [c EXCEPT !.name = name, !.description = description]

FoldCatalog(c) ==
    {WithTexts(c, n, d) :
        n \in FoldKeys(c.name), d \in FoldKeys(c.description)}

FoldSetting(s) ==
    IF "catalogs" \in DOMAIN s
    THEN {CatalogList(cs) :
            cs \in Choices([i \in DOMAIN s.catalogs |-> FoldCatalog(s.catalogs[i])])}
    ELSE {s}

Fold(source) ==
    UNION {Choices([k \in DOMAIN f |-> FoldSetting(f[k])]) : f \in FoldKeys(source)}

-----------------------------------------------------------------------------
(* A setting of the file replaces the default as a whole.  A file that is  *)
(* missing or does not parse is only logged: files is then empty.          *)
Over(defaults, file) ==
    [k \in DOMAIN defaults \cup DOMAIN file |->
        IF k \in DOMAIN file THEN file[k] ELSE defaults[k]]

MergeInConfig(defaults, files) ==
    IF files = {} THEN Fold(defaults)
    ELSE {Over(d, f) : d \in Fold(defaults), f \in UNION {Fold(g) : g \in files}}

(* LookupEnv: a variable that is set and empty counts.                     *)
OverriddenBy(env, settings) ==
    [k \in DOMAIN settings |->
        IF EnvName[k] \in DOMAIN env THEN Text(env[EnvName[k]]) ELSE settings[k]]

-----------------------------------------------------------------------------
(* Unmarshal: a text becomes a number, or the list of its parts; no part is*)
(* a catalog.                                                              *)
Port(s) == IF s.text = "" THEN {0} ELSE {Numeral[t] : t \in {s.text} \cap DOMAIN Numeral}
Origins(s) == IF "items" \in DOMAIN s THEN s.items ELSE Split[s.text]
CatalogsOf(s) ==
    IF "catalogs" \in DOMAIN s THEN {s.catalogs} ELSE IF s.text = "" THEN {<<>>} ELSE {}

Env(settings) ==
    {[authenticationMode |-> settings["authenticationmode"].text, port |-> p,
      corsAllowedOrigins |-> Origins(settings["security::corsallowedorigins"]),
      catalogs |-> c] :
        p \in Port(settings["server::port"]), c \in CatalogsOf(settings["catalogs"])}

(* What Load may give: each time a configuration, or none.                 *)
Load(defaults, files, env) ==
    {Env(OverriddenBy(env, settings)) : settings \in MergeInConfig(defaults, files)}

(* Mutant: a catalog needs no name.                                        *)
ValidateCatalogConfigUnnamed(c) == c.status \in {"PROD", "TEST"} /\ c.id # ""

-----------------------------------------------------------------------------
(* The checks that what the API answers depends on; CatalogRules has those *)
(* that decide about versions and restrictions.                            *)
ValidateCatalogConfig(c) ==
    c.status \in {"PROD", "TEST"} /\ c.id # "" /\ DOMAIN c.name # {}

ValidateCatalogsConfig(catalogs) ==
    /\ \A i \in DOMAIN catalogs : ValidateCatalogConfig(catalogs[i])
    /\ \A i, j \in DOMAIN catalogs : catalogs[i].id = catalogs[j].id => i = j

(* New: the configuration to start with, or none.                          *)
New(defaults, files, env) ==
    {{e \in es : ValidateCatalogsConfig(e.catalogs)} : es \in Load(defaults, files, env)}
=============================================================================
