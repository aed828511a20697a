---------------------------- MODULE ServicesJson ----------------------------
(***************************************************************************)
(* The values of the services API and their JSON                           *)
(* (services/api/oas/oas_json_gen.go, oas_validators_gen.go).              *)
(*                                                                         *)
(* A value of the API is a record; what may be left out is a set of at most*)
(* one element, and so is a list that may be nil.  A piece of JSON is a    *)
(* record whose one field names its type; Nothing is what an encoder that  *)
(* writes nothing leaves after "name":, and does not parse.  A decoder     *)
(* gives the set of the decoded value, empty when it fails.                *)
(***************************************************************************)
EXTENDS Naturals, Sequences, TLC

Str(s) == [str |-> s]
Num(n) == [num |-> n]
Bool(b) == [bool |-> b]
Arr(s) == [arr |-> s]
Obj(f) == [obj |-> f]
Null == [null |-> TRUE]
Nothing == [nothing |-> TRUE]

Is(type, j) == type \in DOMAIN j
The(S) == CHOOSE x \in S : TRUE
NoField == [f \in {} |-> Nothing]

(* What values are: a record of some fields, a map or list, what is set at *)
(* most once.                                                              *)
HasFields(v, fields) == v = [f \in fields |-> v[f]]
IsMap(m) == HasFields(m, DOMAIN m)
AtMostOne(S) == \A u, v \in S : u = v

(* Fields always written, and fields written when they are set.            *)
Object(fields, optional) ==
    LET set == {g \in DOMAIN optional : optional[g] # {}}
    IN  Obj([f \in DOMAIN fields \cup set |->
               IF f \in DOMAIN fields THEN fields[f] ELSE The(optional[f])])

ArrayOf(list, Encode(_)) == Arr([i \in DOMAIN list |-> Encode(list[i])])

(* An object is read to its end: what is not a known field is skipped, but *)
(* it must parse.                                                          *)
Reads(j) == Is("obj", j) /\ \A f \in DOMAIN j.obj : ~Is("nothing", j.obj[f])

Required(j, f, Decode(_)) ==
    IF Reads(j) /\ f \in DOMAIN j.obj THEN Decode(j.obj[f]) ELSE {}

Optional(j, f, Decode(_)) ==
    IF ~Reads(j) THEN {}
    ELSE IF f \in DOMAIN j.obj THEN {{v} : v \in Decode(j.obj[f])} ELSE {{}}

List(j, Decode(_)) ==
    IF Is("arr", j) /\ \A i \in DOMAIN j.arr : Decode(j.arr[i]) # {}
    THEN {[i \in DOMAIN j.arr |-> The(Decode(j.arr[i]))]}
    ELSE {}

(* A map decodes when each of its values does.                             *)
Map(j, Decode(_)) ==
    IF Reads(j) /\ \A f \in DOMAIN j.obj : Decode(j.obj[f]) # {}
    THEN {[f \in DOMAIN j.obj |-> The(Decode(j.obj[f]))]}
    ELSE {}

DecodeString(j) == IF Is("str", j) THEN {j.str} ELSE {}
DecodeInt(j) == IF Is("num", j) THEN {j.num} ELSE {}
DecodeBool(j) == IF Is("bool", j) THEN {j.bool} ELSE {}
DecodeURI(j) == DecodeString(j)
DecodeStrings(j) == List(j, DecodeString)
DecodeRaw(j) == IF Is("nothing", j) THEN {} ELSE {j}

(* jx.Raw: a map of pieces of JSON.                                        *)
IsRawMap(m) == IsMap(m) /\ \A f \in DOMAIN m : ~Is("nothing", m[f])

-----------------------------------------------------------------------------
(* Texts: plain, by language, or neither (type "").                        *)

Untyped == [plain |-> {}, localized |-> {}]
NewStringLocalizedString(s) == [plain |-> {s}, localized |-> {}]
NewLocalizedString1LocalizedString(m) == [plain |-> {}, localized |-> {m}]

IsLocalizedString(s) ==
    \/ \E t \in s.plain : s = NewStringLocalizedString(t)
    \/ \E m \in s.localized : IsMap(m) /\ s = NewLocalizedString1LocalizedString(m)

EncodeLocalizedString1(m) == Obj([lang \in DOMAIN m |-> Str(m[lang])])
DecodeLocalizedString1(j) == Map(j, DecodeString)

EncodeLocalizedString(s) ==
    CASE s.plain # {}     -> Str(The(s.plain))
      [] s.localized # {} -> EncodeLocalizedString1(The(s.localized))
      [] OTHER            -> Nothing

DecodeLocalizedString(j) ==
    {NewStringLocalizedString(s) : s \in DecodeString(j)}
    \cup {NewLocalizedString1LocalizedString(m) : m \in DecodeLocalizedString1(j)}

-----------------------------------------------------------------------------
(* Packages and catalogs.                                                  *)

IsPackage(p) ==
    /\ HasFields(p, {"name", "description", "icon", "home"})
    /\ AtMostOne(p.description) /\ AtMostOne(p.home)

EncodePackage(p) ==
    Object([name |-> Str(p.name), icon |-> Str(p.icon)],
           [description |-> {Str(d) : d \in p.description}, home |-> {Str(h) : h \in p.home}])

DecodePackage(j) ==
    {[name |-> n, description |-> d, icon |-> i, home |-> h] :
        n \in Required(j, "name", DecodeString), d \in Optional(j, "description", DecodeString),
        i \in Required(j, "icon", DecodeURI), h \in Optional(j, "home", DecodeURI)}

IsDetailedPackage(p) ==
    /\ HasFields(p, {"name", "description", "icon", "home", "versions"})
    /\ \A f \in {"description", "home", "versions"} : AtMostOne(p[f])
    /\ \A list \in p.versions : IsMap(list)

DecodePackages(j) == List(j, DecodePackage)

EncodeDetailedPackage(p) ==
    Object([name |-> Str(p.name), icon |-> Str(p.icon),
            versions |-> IF p.versions = {} THEN Arr(<<>>) ELSE ArrayOf(The(p.versions), Str)],
           [description |-> {Str(d) : d \in p.description}, home |-> {Str(h) : h \in p.home}])

DecodeDetailedPackage(j) ==
    {[name |-> n, description |-> d, icon |-> i, home |-> h, versions |-> {v}] :
        n \in Required(j, "name", DecodeString), d \in Optional(j, "description", DecodeString),
        i \in Required(j, "icon", DecodeURI), h \in Optional(j, "home", DecodeURI),
        v \in Required(j, "versions", DecodeStrings)}

DecodeCatalogStatus(j) == DecodeString(j)
ValidateCatalogStatus(s) == s \in {"PROD", "TEST"}

EncodeCatalogVisible(v) == Obj([user |-> Bool(v.user), project |-> Bool(v.project)])
DecodeCatalogVisible(j) ==
    {[user |-> u, project |-> p] :
        u \in Required(j, "user", DecodeBool), p \in Required(j, "project", DecodeBool)}

IsCatalog(c) ==
    /\ HasFields(c, {"id", "name", "description", "status", "highlightedPackages", "visible",
                     "packages"})
    /\ \A f \in {"description", "status", "highlightedPackages", "visible", "packages"} :
          AtMostOne(c[f])
    /\ IsLocalizedString(c.name) /\ \A d \in c.description : IsLocalizedString(d)
    /\ \A s \in c.status : ValidateCatalogStatus(s)
    /\ \A list \in c.highlightedPackages : IsMap(list)
    /\ \A v \in c.visible : HasFields(v, {"user", "project"})
    /\ \A list \in c.packages : IsMap(list) /\ \A i \in DOMAIN list : IsPackage(list[i])

EncodeCatalog(c) ==
    Object([id |-> Str(c.id), name |-> EncodeLocalizedString(c.name),
            packages |-> IF c.packages = {} THEN Arr(<<>>)
                         ELSE ArrayOf(The(c.packages), EncodePackage)],
           [description |-> {EncodeLocalizedString(d) : d \in c.description},
            status |-> {Str(s) : s \in c.status},
            highlightedPackages |-> {ArrayOf(l, Str) : l \in c.highlightedPackages},
            visible |-> {EncodeCatalogVisible(v) : v \in c.visible}])

DecodeCatalog(j) ==
    {[id |-> i, name |-> n, description |-> d, status |-> s, highlightedPackages |-> h,
      visible |-> v, packages |-> {p}] :
        i \in Required(j, "id", DecodeString),
        n \in Required(j, "name", DecodeLocalizedString),
        d \in Optional(j, "description", DecodeLocalizedString),
        s \in Optional(j, "status", DecodeCatalogStatus),
        h \in Optional(j, "highlightedPackages", DecodeStrings),
        v \in Optional(j, "visible", DecodeCatalogVisible),
        p \in Required(j, "packages", DecodePackages)}

(* A nil list is an error only to who validates: the client.               *)
ValidateCatalog(c) ==
    c.packages # {} /\ \A s \in c.status : ValidateCatalogStatus(s)
ValidateDetailedPackage(p) == p.versions # {}

EncodeGetMyCatalogsOK(list) == ArrayOf(list, EncodeCatalog)
DecodeGetMyCatalogsOK(j) == List(j, DecodeCatalog)
ValidateGetMyCatalogsOK(list) == \A i \in DOMAIN list : ValidateCatalog(list[i])

-----------------------------------------------------------------------------
(* Schemas and installations.                                              *)

EncodeGetPackageSchemaOK(schema) == Obj(schema)
DecodeGetPackageSchemaOK(j) == Map(j, DecodeRaw)

IsInstallAccepted(a) ==
    HasFields(a, {"eventsUrl"}) /\ HasFields(a.eventsUrl, {"release", "resources"})

EncodeInstallAcceptedEventsUrl(u) ==
    Obj([release |-> Str(u.release), resources |-> Str(u.resources)])
DecodeInstallAcceptedEventsUrl(j) ==
    {[release |-> r, resources |-> s] :
        r \in Required(j, "release", DecodeString), s \in Required(j, "resources", DecodeString)}

EncodeInstallAccepted(a) == Obj([eventsUrl |-> EncodeInstallAcceptedEventsUrl(a.eventsUrl)])
DecodeInstallAccepted(j) ==
    {[eventsUrl |-> u] : u \in Required(j, "eventsUrl", DecodeInstallAcceptedEventsUrl)}

EncodeServiceInstallRequestOptions(o) == Obj(o)
DecodeServiceInstallRequestOptions(j) == Map(j, DecodeRaw)

IsServiceInstallRequest(r) ==
    /\ HasFields(r, {"catalogId", "packageName", "packageVersion", "version", "options", "share",
                     "friendlyName", "name"})
    /\ \A f \in {"packageVersion", "version", "share", "friendlyName"} : AtMostOne(r[f])
    /\ IsRawMap(r.options)

EncodeServiceInstallRequest(r) ==
    Object([catalogId |-> Str(r.catalogId), packageName |-> Str(r.packageName),
            options |-> EncodeServiceInstallRequestOptions(r.options), name |-> Str(r.name)],
           [packageVersion |-> {Str(v) : v \in r.packageVersion},
            version |-> {Str(v) : v \in r.version},
            share |-> {Bool(b) : b \in r.share},
            friendlyName |-> {Str(n) : n \in r.friendlyName}])

(* setDefaults *)
OrFalse(share) == IF share = {} THEN {FALSE} ELSE share

DecodeServiceInstallRequest(j) ==
    {[catalogId |-> c, packageName |-> p, packageVersion |-> w, version |-> v, options |-> o,
      share |-> OrFalse(s), friendlyName |-> f, name |-> n] :
        c \in Required(j, "catalogId", DecodeString),
        p \in Required(j, "packageName", DecodeString),
        w \in Optional(j, "packageVersion", DecodeString),
        v \in Optional(j, "version", DecodeString),
        o \in Required(j, "options", DecodeServiceInstallRequestOptions),
        s \in Optional(j, "share", DecodeBool),
        f \in Optional(j, "friendlyName", DecodeString),
        n \in Required(j, "name", DecodeString)}

-----------------------------------------------------------------------------
(* Problems.  The error answers of the operations are problems under other *)
(* names.  Unknown fields are kept.                                        *)

ProblemFields == {"type", "title", "status", "detail", "instance"}

IsProblem(p) ==
    /\ HasFields(p, ProblemFields \cup {"additional"})
    /\ \A f \in ProblemFields : AtMostOne(p[f])
    /\ IsRawMap(p.additional) /\ DOMAIN p.additional \cap ProblemFields = {}

EncodeProblem(p) ==
    Object(p.additional,
           [type |-> {Str(t) : t \in p.type}, title |-> {Str(t) : t \in p.title},
            status |-> {Num(n) : n \in p.status}, detail |-> {Str(d) : d \in p.detail},
            instance |-> {Str(i) : i \in p.instance}])

DecodeProblem(j) ==
    {[type |-> y, title |-> t, status |-> s, detail |-> d, instance |-> i,
      additional |-> [f \in DOMAIN j.obj \ ProblemFields |-> j.obj[f]]] :
        y \in Optional(j, "type", DecodeURI), t \in Optional(j, "title", DecodeString),
        s \in Optional(j, "status", DecodeInt), d \in Optional(j, "detail", DecodeString),
        i \in Optional(j, "instance", DecodeString)}
=============================================================================
