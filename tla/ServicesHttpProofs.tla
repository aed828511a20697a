------------------------- MODULE ServicesHttpProofs -------------------------
(***************************************************************************)
(* The codecs of the services API agree: a value that one end writes is the*)
(* value that the other end reads, for every value of its type.            *)
(***************************************************************************)
EXTENDS ServicesHttp, TLAPS

-----------------------------------------------------------------------------
(* Objects and their fields.                                               *)

(* What an object has: the fields always written and the ones that are set.*)
IsObjectOf(o, fields, optional) ==
    /\ o = [f \in DOMAIN o |-> o[f]]
    /\ DOMAIN o = DOMAIN fields \cup {g \in DOMAIN optional : optional[g] # {}}
    /\ \A f \in DOMAIN fields : o[f] = fields[f]
    /\ \A g \in DOMAIN optional \ DOMAIN fields : optional[g] # {} => o[g] = The(optional[g])

LEMMA ObjectIs ==
    ASSUME NEW fields, NEW optional
    PROVE  \E o : Object(fields, optional) = Obj(o) /\ IsObjectOf(o, fields, optional)
<1>1. PICK set : set = {g \in DOMAIN optional : optional[g] # {}}
  OBVIOUS
<1>2. PICK o : o = [f \in DOMAIN fields \cup set |->
                      IF f \in DOMAIN fields THEN fields[f] ELSE The(optional[f])]
  OBVIOUS
<1>3. Object(fields, optional) = Obj(o)
  BY <1>1, <1>2 DEF Object
<1>4. IsObjectOf(o, fields, optional)
  BY <1>1, <1>2 DEF IsObjectOf
<1> QED BY <1>3, <1>4

LEMMA TheOnly ==
    ASSUME NEW s
    PROVE  The({s}) = s
BY DEF The

LEMMA Wrapped ==
    ASSUME NEW S, AtMostOne(S), S # {}
    PROVE  {{v} : v \in S} = {S}
<1>1. PICK s : S = {s}
  BY DEF AtMostOne
<1> QED BY <1>1

(* A field of an object that parses, and the value that was written there; *)
(* one that may be left out, and the one value that was, if any.           *)
FieldIs(j, f, e) == Reads(j) /\ f \in DOMAIN j.obj /\ j.obj[f] = e
OptionIs(j, f, es) ==
    /\ Reads(j)
    /\ f \in DOMAIN j.obj <=> es # {}
    /\ es # {} => j.obj[f] = The(es)

(* An object of values that parse reads as it was written.                 *)
LEMMA ObjectReads ==
    ASSUME NEW fields, NEW optional,
           \A f \in DOMAIN fields : ~Is("nothing", fields[f]),
           \A g \in DOMAIN optional : \A e \in optional[g] : ~Is("nothing", e),
           DOMAIN fields \cap DOMAIN optional = {},
           NEW j, j = Object(fields, optional)
    PROVE  /\ \A f \in DOMAIN fields : FieldIs(j, f, fields[f])
           /\ \A g \in DOMAIN optional : OptionIs(j, g, optional[g])
           /\ IsObjectOf(j.obj, fields, optional)
<1>1. PICK o : j = Obj(o) /\ IsObjectOf(o, fields, optional)
  BY ObjectIs
<1>2. j.obj = o /\ Is("obj", j)
  BY <1>1 DEF Obj, Is
<1>3. \A S : S # {} => The(S) \in S
  BY DEF The
<1>4. ASSUME NEW f \in DOMAIN o
      PROVE  ~Is("nothing", o[f])
  <2>1. CASE f \in DOMAIN fields
    BY <1>1, <2>1 DEF IsObjectOf
  <2>2. CASE f \notin DOMAIN fields
    <3>1. f \in DOMAIN optional /\ optional[f] # {} /\ o[f] = The(optional[f])
        BY <1>1, <1>4, <2>2 DEF IsObjectOf
    <3>2. o[f] \in optional[f]
      BY <1>3, <3>1
    <3> QED BY <3>1, <3>2
  <2> QED BY <2>1, <2>2
<1>5. Reads(j)
  BY <1>2, <1>4 DEF Reads
<1>6. \A f \in DOMAIN fields : FieldIs(j, f, fields[f])
  BY <1>1, <1>2, <1>5 DEF FieldIs, IsObjectOf
<1>7. \A g \in DOMAIN optional : OptionIs(j, g, optional[g])
  BY <1>1, <1>2, <1>5 DEF OptionIs, IsObjectOf
<1> QED BY <1>1, <1>2, <1>6, <1>7

LEMMA StringDecodes ==
    ASSUME NEW s
    PROVE  DecodeString(Str(s)) = {s} /\ ~Is("nothing", Str(s))
BY DEF DecodeString, Str, Is

LEMMA RequiredString ==
    ASSUME NEW j, NEW f, NEW s, FieldIs(j, f, Str(s))
    PROVE  Required(j, f, DecodeString) = {s}
BY StringDecodes DEF Required, FieldIs

LEMMA OptionalString ==
    ASSUME NEW j, NEW f, NEW S, AtMostOne(S),
           OptionIs(j, f, {Str(s) : s \in S})
    PROVE  Optional(j, f, DecodeString) = {S}
<1>1. CASE S = {}
  BY <1>1 DEF Optional, OptionIs
<1>2. CASE S # {}
  <2>1. PICK s \in S : S = {s}
    BY <1>2 DEF AtMostOne
  <2>2. {Str(t) : t \in S} = {Str(s)}
    BY <2>1
  <2>3. DecodeString(j.obj[f]) = S
    BY <1>2, <2>1, <2>2, TheOnly, StringDecodes DEF OptionIs
  <2>4. {{v} : v \in DecodeString(j.obj[f])} = {S}
    BY <1>2, <2>3, Wrapped
  <2> QED BY <1>2, <2>1, <2>2, <2>4 DEF Optional, OptionIs
<1> QED BY <1>1, <1>2

LEMMA URIDecodes ==
    ASSUME NEW s
    PROVE  DecodeURI(Str(s)) = {s} /\ ~Is("nothing", Str(s))
BY DEF DecodeURI, DecodeString, Str, Is

LEMMA RequiredURI ==
    ASSUME NEW j, NEW f, NEW s, FieldIs(j, f, Str(s))
    PROVE  Required(j, f, DecodeURI) = {s}
BY URIDecodes DEF Required, FieldIs

LEMMA OptionalURI ==
    ASSUME NEW j, NEW f, NEW S, AtMostOne(S),
           OptionIs(j, f, {Str(s) : s \in S})
    PROVE  Optional(j, f, DecodeURI) = {S}
<1>1. CASE S = {}
  BY <1>1 DEF Optional, OptionIs
<1>2. CASE S # {}
  <2>1. PICK s \in S : S = {s}
    BY <1>2 DEF AtMostOne
  <2>2. {Str(t) : t \in S} = {Str(s)}
    BY <2>1
  <2>3. DecodeURI(j.obj[f]) = S
    BY <1>2, <2>1, <2>2, TheOnly, URIDecodes DEF OptionIs
  <2>4. {{v} : v \in DecodeURI(j.obj[f])} = {S}
    BY <1>2, <2>3, Wrapped
  <2> QED BY <1>2, <2>1, <2>2, <2>4 DEF Optional, OptionIs
<1> QED BY <1>1, <1>2

LEMMA StatusDecodes ==
    ASSUME NEW s
    PROVE  DecodeCatalogStatus(Str(s)) = {s} /\ ~Is("nothing", Str(s))
BY DEF DecodeCatalogStatus, DecodeString, Str, Is

LEMMA OptionalStatus ==
    ASSUME NEW j, NEW f, NEW S, AtMostOne(S),
           OptionIs(j, f, {Str(s) : s \in S})
    PROVE  Optional(j, f, DecodeCatalogStatus) = {S}
<1>1. CASE S = {}
  BY <1>1 DEF Optional, OptionIs
<1>2. CASE S # {}
  <2>1. PICK s \in S : S = {s}
    BY <1>2 DEF AtMostOne
  <2>2. {Str(t) : t \in S} = {Str(s)}
    BY <2>1
  <2>3. DecodeCatalogStatus(j.obj[f]) = S
    BY <1>2, <2>1, <2>2, TheOnly, StatusDecodes DEF OptionIs
  <2>4. {{v} : v \in DecodeCatalogStatus(j.obj[f])} = {S}
    BY <1>2, <2>3, Wrapped
  <2> QED BY <1>2, <2>1, <2>2, <2>4 DEF Optional, OptionIs
<1> QED BY <1>1, <1>2

LEMMA BoolDecodes ==
    ASSUME NEW s
    PROVE  DecodeBool(Bool(s)) = {s} /\ ~Is("nothing", Bool(s))
BY DEF DecodeBool, Bool, Is

LEMMA RequiredBool ==
    ASSUME NEW j, NEW f, NEW s, FieldIs(j, f, Bool(s))
    PROVE  Required(j, f, DecodeBool) = {s}
BY BoolDecodes DEF Required, FieldIs

LEMMA OptionalBool ==
    ASSUME NEW j, NEW f, NEW S, AtMostOne(S),
           OptionIs(j, f, {Bool(s) : s \in S})
    PROVE  Optional(j, f, DecodeBool) = {S}
<1>1. CASE S = {}
  BY <1>1 DEF Optional, OptionIs
<1>2. CASE S # {}
  <2>1. PICK s \in S : S = {s}
    BY <1>2 DEF AtMostOne
  <2>2. {Bool(t) : t \in S} = {Bool(s)}
    BY <2>1
  <2>3. DecodeBool(j.obj[f]) = S
    BY <1>2, <2>1, <2>2, TheOnly, BoolDecodes DEF OptionIs
  <2>4. {{v} : v \in DecodeBool(j.obj[f])} = {S}
    BY <1>2, <2>3, Wrapped
  <2> QED BY <1>2, <2>1, <2>2, <2>4 DEF Optional, OptionIs
<1> QED BY <1>1, <1>2

LEMMA NumberDecodes ==
    ASSUME NEW s
    PROVE  DecodeInt(Num(s)) = {s} /\ ~Is("nothing", Num(s))
BY DEF DecodeInt, Num, Is

LEMMA OptionalNumber ==
    ASSUME NEW j, NEW f, NEW S, AtMostOne(S),
           OptionIs(j, f, {Num(s) : s \in S})
    PROVE  Optional(j, f, DecodeInt) = {S}
<1>1. CASE S = {}
  BY <1>1 DEF Optional, OptionIs
<1>2. CASE S # {}
  <2>1. PICK s \in S : S = {s}
    BY <1>2 DEF AtMostOne
  <2>2. {Num(t) : t \in S} = {Num(s)}
    BY <2>1
  <2>3. DecodeInt(j.obj[f]) = S
    BY <1>2, <2>1, <2>2, TheOnly, NumberDecodes DEF OptionIs
  <2>4. {{v} : v \in DecodeInt(j.obj[f])} = {S}
    BY <1>2, <2>3, Wrapped
  <2> QED BY <1>2, <2>1, <2>2, <2>4 DEF Optional, OptionIs
<1> QED BY <1>1, <1>2

-----------------------------------------------------------------------------
(* Lists and maps.                                                         *)

LEMMA StringsDecodes ==
    ASSUME NEW s, IsMap(s)
    PROVE  DecodeStrings(ArrayOf(s, Str)) = {s} /\ ~Is("nothing", ArrayOf(s, Str))
<1>1. PICK j : j = ArrayOf(s, Str)
  OBVIOUS
<1>2. j.arr = [i \in DOMAIN s |-> Str(s[i])] /\ Is("arr", j) /\ ~Is("nothing", j)
  BY <1>1 DEF ArrayOf, Arr, Is
<1>3. DOMAIN j.arr = DOMAIN s /\ \A i \in DOMAIN s : DecodeString(j.arr[i]) = {s[i]}
  BY <1>2, StringDecodes
<1>4. \A i \in DOMAIN s : DecodeString(j.arr[i]) # {} /\ The(DecodeString(j.arr[i])) = s[i]
  BY <1>3, TheOnly
<1>5. [i \in DOMAIN j.arr |-> The(DecodeString(j.arr[i]))] = s
  BY <1>3, <1>4 DEF IsMap, HasFields
<1>6. List(j, DecodeString) = {s}
  BY <1>2, <1>3, <1>4, <1>5 DEF List
<1> QED BY <1>1, <1>2, <1>6 DEF DecodeStrings

LEMMA RequiredStrings ==
    ASSUME NEW j, NEW f, NEW s, IsMap(s), FieldIs(j, f, ArrayOf(s, Str))
    PROVE  Required(j, f, DecodeStrings) = {s}
BY StringsDecodes DEF Required, FieldIs

LEMMA OptionalStrings ==
    ASSUME NEW j, NEW f, NEW S, AtMostOne(S), \A s \in S : IsMap(s),
           OptionIs(j, f, {ArrayOf(s, Str) : s \in S})
    PROVE  Optional(j, f, DecodeStrings) = {S}
<1>1. CASE S = {}
  BY <1>1 DEF Optional, OptionIs
<1>2. CASE S # {}
  <2>1. PICK s \in S : S = {s}
    BY <1>2 DEF AtMostOne
  <2>2. {ArrayOf(t, Str) : t \in S} = {ArrayOf(s, Str)}
    BY <2>1
  <2>3. DecodeStrings(j.obj[f]) = S
    BY <1>2, <2>1, <2>2, TheOnly, StringsDecodes DEF OptionIs
  <2>4. {{v} : v \in DecodeStrings(j.obj[f])} = {S}
    BY <1>2, <2>3, Wrapped
  <2> QED BY <1>2, <2>1, <2>2, <2>4 DEF Optional, OptionIs
<1> QED BY <1>1, <1>2

(* A map of pieces of JSON is read as it was written.                      *)
LEMMA RawsDecode ==
    ASSUME NEW m, IsRawMap(m)
    PROVE  Map(Obj(m), DecodeRaw) = {m}
<1>1. Obj(m).obj = m /\ Reads(Obj(m))
  BY DEF Obj, Is, Reads, IsRawMap
<1>2. \A f \in DOMAIN m : DecodeRaw(m[f]) = {m[f]}
  BY DEF DecodeRaw, IsRawMap
<1>3. \A f \in DOMAIN m : The(DecodeRaw(m[f])) = m[f]
  BY <1>2, TheOnly
<1>4. [f \in DOMAIN m |-> The(DecodeRaw(m[f]))] = m
  BY <1>3 DEF IsRawMap, IsMap, HasFields
<1> QED BY <1>1, <1>2, <1>4 DEF Map

(* So is a map of texts.                                                   *)
LEMMA TextsDecode ==
    ASSUME NEW m, IsMap(m)
    PROVE  /\ DecodeLocalizedString1(EncodeLocalizedString1(m)) = {m}
           /\ Is("obj", EncodeLocalizedString1(m)) /\ ~Is("nothing", EncodeLocalizedString1(m))
           /\ ~Is("str", EncodeLocalizedString1(m))
<1>1. PICK o : o = [l \in DOMAIN m |-> Str(m[l])]
  OBVIOUS
<1>2. PICK j : j = Obj(o)
  OBVIOUS
<1>3. j = EncodeLocalizedString1(m) /\ j.obj = o
  BY <1>1, <1>2 DEF EncodeLocalizedString1, Obj
<1>4. Is("obj", j) /\ ~Is("nothing", j) /\ ~Is("str", j)
  BY <1>2 DEF Obj, Is
<1>5. /\ DOMAIN o = DOMAIN m
      /\ \A l \in DOMAIN m : DecodeString(o[l]) = {m[l]} /\ ~Is("nothing", o[l])
  BY <1>1, StringDecodes
<1>6. \A l \in DOMAIN m : DecodeString(o[l]) # {} /\ The(DecodeString(o[l])) = m[l]
  BY <1>5, TheOnly
<1>7. [l \in DOMAIN o |-> The(DecodeString(o[l]))] = m
  BY <1>5, <1>6 DEF IsMap, HasFields
<1>8. Reads(j)
  BY <1>3, <1>4, <1>5 DEF Reads
<1>9. Map(j, DecodeString) = {m}
  BY <1>3, <1>5, <1>6, <1>7, <1>8 DEF Map
<1> QED BY <1>3, <1>4, <1>9 DEF DecodeLocalizedString1

LEMMA TextDecodes ==
    ASSUME NEW s, IsLocalizedString(s)
    PROVE  DecodeLocalizedString(EncodeLocalizedString(s)) = {s} /\ ~Is("nothing", EncodeLocalizedString(s))
<1>1. CASE \E t \in s.plain : s = NewStringLocalizedString(t)
  <2>1. PICK t : s = NewStringLocalizedString(t)
    BY <1>1
  <2>2. s.plain = {t} /\ s.localized = {}
    BY <2>1 DEF NewStringLocalizedString
  <2>3. EncodeLocalizedString(s) = Str(t)
    BY <2>2, TheOnly DEF EncodeLocalizedString
  <2>4. DecodeLocalizedString1(Str(t)) = {}
    BY DEF DecodeLocalizedString1, Map, Reads, Is, Str
  <2>5. DecodeLocalizedString(Str(t)) = {NewStringLocalizedString(t)}
    BY <2>4, StringDecodes DEF DecodeLocalizedString
  <2> QED BY <2>1, <2>3, <2>5, StringDecodes
<1>2. CASE \E m \in s.localized : IsMap(m) /\ s = NewLocalizedString1LocalizedString(m)
  <2>1. PICK m : IsMap(m) /\ s = NewLocalizedString1LocalizedString(m)
    BY <1>2
  <2>2. s.plain = {} /\ s.localized = {m}
    BY <2>1 DEF NewLocalizedString1LocalizedString
  <2>3. PICK j : j = EncodeLocalizedString1(m)
    OBVIOUS
  <2>4. EncodeLocalizedString(s) = j
    BY <2>2, <2>3, TheOnly DEF EncodeLocalizedString
  <2>5. /\ DecodeLocalizedString1(j) = {m} /\ ~Is("nothing", j) /\ ~Is("str", j)
    BY <2>1, <2>3, TextsDecode
  <2>6. DecodeString(j) = {}
    BY <2>5 DEF DecodeString
  <2>7. DecodeLocalizedString(j) = {NewLocalizedString1LocalizedString(m)}
    BY <2>5, <2>6 DEF DecodeLocalizedString
  <2> QED BY <2>1, <2>4, <2>5, <2>7
<1> QED BY <1>1, <1>2 DEF IsLocalizedString

LEMMA RequiredText ==
    ASSUME NEW j, NEW f, NEW s, IsLocalizedString(s), FieldIs(j, f, EncodeLocalizedString(s))
    PROVE  Required(j, f, DecodeLocalizedString) = {s}
BY TextDecodes DEF Required, FieldIs

LEMMA OptionalText ==
    ASSUME NEW j, NEW f, NEW S, AtMostOne(S), \A s \in S : IsLocalizedString(s),
           OptionIs(j, f, {EncodeLocalizedString(s) : s \in S})
    PROVE  Optional(j, f, DecodeLocalizedString) = {S}
<1>1. CASE S = {}
  BY <1>1 DEF Optional, OptionIs
<1>2. CASE S # {}
  <2>1. PICK s \in S : S = {s}
    BY <1>2 DEF AtMostOne
  <2>2. {EncodeLocalizedString(t) : t \in S} = {EncodeLocalizedString(s)}
    BY <2>1
  <2>3. DecodeLocalizedString(j.obj[f]) = S
    BY <1>2, <2>1, <2>2, TheOnly, TextDecodes DEF OptionIs
  <2>4. {{v} : v \in DecodeLocalizedString(j.obj[f])} = {S}
    BY <1>2, <2>3, Wrapped
  <2> QED BY <1>2, <2>1, <2>2, <2>4 DEF Optional, OptionIs
<1> QED BY <1>1, <1>2

-----------------------------------------------------------------------------
(* Installations.                                                          *)

(* The request that the server reads is the one the client was given, with *)
(* the default of share filled in.                                         *)
THEOREM RequestIsRead ==
    ASSUME NEW r, IsServiceInstallRequest(r)
    PROVE  DecodeServiceInstallRequest(EncodeServiceInstallRequest(r)) =
              {[r EXCEPT !.share = OrFalse(@)]}
<1>1. PICK fields : fields =
        [catalogId |-> Str(r.catalogId), packageName |-> Str(r.packageName),
         options |-> EncodeServiceInstallRequestOptions(r.options), name |-> Str(r.name)]
  OBVIOUS
<1>2. PICK optional : optional =
        [packageVersion |-> {Str(v) : v \in r.packageVersion},
         version |-> {Str(v) : v \in r.version},
         share |-> {Bool(b) : b \in r.share},
         friendlyName |-> {Str(n) : n \in r.friendlyName}]
  OBVIOUS
<1>3. PICK j : j = Object(fields, optional)
  OBVIOUS
<1>4. j = EncodeServiceInstallRequest(r)
  BY <1>1, <1>2, <1>3 DEF EncodeServiceInstallRequest
<1>5. /\ \A f \in DOMAIN fields : ~Is("nothing", fields[f])
      /\ \A g \in DOMAIN optional : \A e \in optional[g] : ~Is("nothing", e)
      /\ DOMAIN fields \cap DOMAIN optional = {}
  <2>1. \A f \in DOMAIN fields : ~Is("nothing", fields[f])
    BY <1>1 DEF Is, Str, Obj, EncodeServiceInstallRequestOptions
  <2>2. \A g \in DOMAIN optional : \A e \in optional[g] : ~Is("nothing", e)
    BY <1>2, StringDecodes, BoolDecodes
  <2> QED BY <1>1, <1>2, <2>1, <2>2
<1>6. /\ \A f \in DOMAIN fields : FieldIs(j, f, fields[f])
      /\ \A g \in DOMAIN optional : OptionIs(j, g, optional[g])
  BY <1>3, <1>5, ObjectReads
<1>7. /\ Required(j, "catalogId", DecodeString) = {r.catalogId}
      /\ Required(j, "packageName", DecodeString) = {r.packageName}
      /\ Required(j, "name", DecodeString) = {r.name}
  <2>1. /\ FieldIs(j, "catalogId", Str(r.catalogId)) /\ FieldIs(j, "name", Str(r.name))
        /\ FieldIs(j, "packageName", Str(r.packageName))
    BY <1>1, <1>6
  <2> QED BY <2>1, RequiredString
<1>8. Required(j, "options", DecodeServiceInstallRequestOptions) = {r.options}
  <2>1. FieldIs(j, "options", Obj(r.options))
    BY <1>1, <1>6 DEF EncodeServiceInstallRequestOptions
  <2>2. Map(Obj(r.options), DecodeRaw) = {r.options}
    BY RawsDecode DEF IsServiceInstallRequest
  <2> QED BY <2>1, <2>2 DEF FieldIs, Required, DecodeServiceInstallRequestOptions
<1>9. \A f \in {"packageVersion", "version", "share", "friendlyName"} : AtMostOne(r[f])
  BY DEF IsServiceInstallRequest
<1>10. /\ Optional(j, "packageVersion", DecodeString) = {r.packageVersion}
       /\ Optional(j, "version", DecodeString) = {r.version}
       /\ Optional(j, "friendlyName", DecodeString) = {r.friendlyName}
       /\ Optional(j, "share", DecodeBool) = {r.share}
  <2>1. /\ OptionIs(j, "packageVersion", {Str(v) : v \in r.packageVersion})
        /\ OptionIs(j, "version", {Str(v) : v \in r.version})
        /\ OptionIs(j, "friendlyName", {Str(n) : n \in r.friendlyName})
        /\ OptionIs(j, "share", {Bool(b) : b \in r.share})
    BY <1>2, <1>6
  <2> QED BY <1>9, <2>1, OptionalString, OptionalBool
<1>11. DecodeServiceInstallRequest(j) =
         {[catalogId |-> r.catalogId, packageName |-> r.packageName,
           packageVersion |-> r.packageVersion, version |-> r.version, options |-> r.options,
           share |-> OrFalse(r.share), friendlyName |-> r.friendlyName, name |-> r.name]}
  BY <1>7, <1>8, <1>10 DEF DecodeServiceInstallRequest
<1>12. [catalogId |-> r.catalogId, packageName |-> r.packageName,
        packageVersion |-> r.packageVersion, version |-> r.version, options |-> r.options,
        share |-> OrFalse(r.share), friendlyName |-> r.friendlyName, name |-> r.name]
       = [r EXCEPT !.share = OrFalse(@)]
  BY DEF IsServiceInstallRequest, HasFields
<1> QED BY <1>4, <1>11, <1>12

-----------------------------------------------------------------------------
(* Packages and catalogs.                                                  *)

LEMMA PackageDecodes ==
    ASSUME NEW p, IsPackage(p)
    PROVE  DecodePackage(EncodePackage(p)) = {p} /\ ~Is("nothing", EncodePackage(p))
<1>1. PICK fields : fields =
        [name |-> Str(p.name),
         icon |-> Str(p.icon)]
  OBVIOUS
<1>2. PICK optional : optional =
        [description |-> {Str(d) : d \in p.description},
         home |-> {Str(h) : h \in p.home}]
  OBVIOUS
<1>3. PICK j : j = Object(fields, optional)
  OBVIOUS
<1>4. j = EncodePackage(p)
  BY <1>1, <1>2, <1>3 DEF EncodePackage
<1>5. /\ \A f \in DOMAIN fields : ~Is("nothing", fields[f])
      /\ \A g \in DOMAIN optional : \A e \in optional[g] : ~Is("nothing", e)
      /\ DOMAIN fields \cap DOMAIN optional = {}
  <2>1. \A f \in DOMAIN fields : ~Is("nothing", fields[f])
    BY <1>1, StringDecodes
  <2>2. \A g \in DOMAIN optional : \A e \in optional[g] : ~Is("nothing", e)
    BY <1>2, StringDecodes
  <2> QED BY <1>1, <1>2, <2>1, <2>2
<1>6. /\ \A f \in DOMAIN fields : FieldIs(j, f, fields[f])
      /\ \A g \in DOMAIN optional : OptionIs(j, g, optional[g])
  BY <1>3, <1>5, ObjectReads
<1>7. /\ Required(j, "name", DecodeString) = {p.name}
      /\ Required(j, "icon", DecodeURI) = {p.icon}
  <2>1. FieldIs(j, "name", Str(p.name)) /\ FieldIs(j, "icon", Str(p.icon))
    BY <1>1, <1>6
  <2> QED BY <2>1, RequiredString, RequiredURI
<1>8. /\ Optional(j, "description", DecodeString) = {p.description}
      /\ Optional(j, "home", DecodeURI) = {p.home}
  <2>1. /\ OptionIs(j, "description", {Str(d) : d \in p.description})
        /\ OptionIs(j, "home", {Str(h) : h \in p.home})
    BY <1>2, <1>6
  <2> QED BY <2>1, OptionalString, OptionalURI DEF IsPackage
<1>9. DecodePackage(j) =
         {[name |-> p.name, description |-> p.description, icon |-> p.icon, home |-> p.home]}
  BY <1>7, <1>8 DEF DecodePackage
<1>10. [name |-> p.name, description |-> p.description, icon |-> p.icon, home |-> p.home] = p
  BY DEF IsPackage, HasFields
<1>11. ~Is("nothing", j)
  BY <1>3 DEF Object, Obj, Is
<1> QED BY <1>4, <1>9, <1>10, <1>11

LEMMA PackagesDecode ==
    ASSUME NEW l, IsMap(l), \A i \in DOMAIN l : IsPackage(l[i])
    PROVE  /\ DecodePackages(ArrayOf(l, EncodePackage)) = {l}
           /\ ~Is("nothing", ArrayOf(l, EncodePackage))
<1>1. PICK j : j = ArrayOf(l, EncodePackage)
  OBVIOUS
<1>2. j.arr = [i \in DOMAIN l |-> EncodePackage(l[i])] /\ Is("arr", j) /\ ~Is("nothing", j)
  BY <1>1 DEF ArrayOf, Arr, Is
<1>3. DOMAIN j.arr = DOMAIN l /\ \A i \in DOMAIN l : DecodePackage(j.arr[i]) = {l[i]}
  BY <1>2, PackageDecodes
<1>4. \A i \in DOMAIN l : DecodePackage(j.arr[i]) # {} /\ The(DecodePackage(j.arr[i])) = l[i]
  BY <1>3, TheOnly
<1>5. [i \in DOMAIN j.arr |-> The(DecodePackage(j.arr[i]))] = l
  BY <1>3, <1>4 DEF IsMap, HasFields
<1>6. List(j, DecodePackage) = {l}
  BY <1>2, <1>3, <1>4, <1>5 DEF List
<1> QED BY <1>1, <1>2, <1>6 DEF DecodePackages

(* A list that is not given is read as an empty one.                       *)
LEMMA EmptyListsDecode ==
    /\ DecodeStrings(Arr(<<>>)) = {<<>>} /\ DecodePackages(Arr(<<>>)) = {<<>>}
    /\ ~Is("nothing", Arr(<<>>))
<1>1. PICK j : j = Arr(<<>>)
  OBVIOUS
<1>2. Is("arr", j) /\ ~Is("nothing", j) /\ j.arr = <<>> /\ DOMAIN j.arr = {}
  BY <1>1 DEF Arr, Is
<1>3. [i \in DOMAIN j.arr |-> The(DecodeString(j.arr[i]))] = <<>>
  BY <1>2
<1>4. [i \in DOMAIN j.arr |-> The(DecodePackage(j.arr[i]))] = <<>>
  BY <1>2
<1> QED BY <1>1, <1>2, <1>3, <1>4 DEF DecodeStrings, DecodePackages, List

LEMMA VersionsDecode ==
    ASSUME NEW S, AtMostOne(S), \A list \in S : IsMap(list),
           NEW j, j = IF S = {} THEN Arr(<<>>) ELSE ArrayOf(The(S), Str)
    PROVE  ~Is("nothing", j) /\ {{v} : v \in DecodeStrings(j)} = {OrEmpty(S)}
<1>1. CASE S = {}
  BY <1>1, EmptyListsDecode DEF OrEmpty
<1>2. CASE S # {}
  <2>1. PICK list \in S : S = {list}
    BY <1>2 DEF AtMostOne
  <2>2. j = ArrayOf(list, Str)
    BY <1>2, <2>1, TheOnly
  <2>3. DecodeStrings(j) = {list} /\ ~Is("nothing", j)
    BY <2>1, <2>2, StringsDecodes
  <2> QED BY <1>2, <2>1, <2>3 DEF OrEmpty
<1> QED BY <1>1, <1>2

LEMMA DetailedPackageDecodes ==
    ASSUME NEW p, IsDetailedPackage(p)
    PROVE  DecodeDetailedPackage(EncodeDetailedPackage(p)) = {[p EXCEPT !.versions = OrEmpty(@)]}
<1>1. PICK vj : vj = IF p.versions = {} THEN Arr(<<>>) ELSE ArrayOf(The(p.versions), Str)
  OBVIOUS
<1>2. ~Is("nothing", vj) /\ {{v} : v \in DecodeStrings(vj)} = {OrEmpty(p.versions)}
  BY <1>1, VersionsDecode DEF IsDetailedPackage
<1>3. PICK fields : fields = [name |-> Str(p.name), icon |-> Str(p.icon), versions |-> vj]
  OBVIOUS
<1>4. PICK optional : optional =
        [description |-> {Str(d) : d \in p.description},
         home |-> {Str(h) : h \in p.home}]
  OBVIOUS
<1>5. PICK j : j = Object(fields, optional)
  OBVIOUS
<1>6. j = EncodeDetailedPackage(p)
  BY <1>1, <1>3, <1>4, <1>5 DEF EncodeDetailedPackage
<1>7. /\ \A f \in DOMAIN fields : ~Is("nothing", fields[f])
      /\ \A g \in DOMAIN optional : \A e \in optional[g] : ~Is("nothing", e)
      /\ DOMAIN fields \cap DOMAIN optional = {}
  <2>1. \A f \in DOMAIN fields : ~Is("nothing", fields[f])
    BY <1>2, <1>3, StringDecodes
  <2>2. \A g \in DOMAIN optional : \A e \in optional[g] : ~Is("nothing", e)
    BY <1>4, StringDecodes
  <2> QED BY <1>3, <1>4, <2>1, <2>2
<1>8. /\ \A f \in DOMAIN fields : FieldIs(j, f, fields[f])
      /\ \A g \in DOMAIN optional : OptionIs(j, g, optional[g])
  BY <1>5, <1>7, ObjectReads
<1>9. /\ Required(j, "name", DecodeString) = {p.name}
      /\ Required(j, "icon", DecodeURI) = {p.icon}
      /\ Required(j, "versions", DecodeStrings) = DecodeStrings(vj)
  <2>1. /\ FieldIs(j, "name", Str(p.name)) /\ FieldIs(j, "icon", Str(p.icon))
        /\ FieldIs(j, "versions", vj)
    BY <1>3, <1>8
  <2>2. Required(j, "versions", DecodeStrings) = DecodeStrings(vj)
    BY <2>1 DEF FieldIs, Required
  <2> QED BY <2>1, <2>2, RequiredString, RequiredURI
<1>10. /\ Optional(j, "description", DecodeString) = {p.description}
       /\ Optional(j, "home", DecodeURI) = {p.home}
  <2>1. /\ OptionIs(j, "description", {Str(d) : d \in p.description})
        /\ OptionIs(j, "home", {Str(h) : h \in p.home})
    BY <1>4, <1>8
  <2> QED BY <2>1, OptionalString, OptionalURI DEF IsDetailedPackage
<1>11. DecodeDetailedPackage(j) =
         {[name |-> p.name, description |-> p.description, icon |-> p.icon, home |-> p.home,
           versions |-> OrEmpty(p.versions)]}
  <2>1. PICK vs : vs = DecodeStrings(vj)
    OBVIOUS
  <2>2. DecodeDetailedPackage(j) =
         {[name |-> n, description |-> d, icon |-> i, home |-> h, versions |-> {v}] :
             n \in {p.name}, d \in {p.description}, i \in {p.icon}, h \in {p.home}, v \in vs}
    <3>1. /\ Required(j, "name", DecodeString) = {p.name}
          /\ Required(j, "icon", DecodeURI) = {p.icon}
          /\ Required(j, "versions", DecodeStrings) = vs
      BY <1>9, <2>1
    <3> QED BY ONLY <3>1, <1>10 DEF DecodeDetailedPackage
  <2>3. (\A v \in vs : {v} = OrEmpty(p.versions)) /\ (\E v \in vs : {v} = OrEmpty(p.versions))
    BY <1>2, <2>1
  <2>4. \A q : q \in DecodeDetailedPackage(j) <=>
          \E v \in vs : q = [name |-> p.name, description |-> p.description, icon |-> p.icon,
                             home |-> p.home, versions |-> {v}]
    BY <2>2
  <2> QED BY <2>3, <2>4
<1>12. [name |-> p.name, description |-> p.description, icon |-> p.icon, home |-> p.home,
        versions |-> OrEmpty(p.versions)] = [p EXCEPT !.versions = OrEmpty(@)]
  BY DEF IsDetailedPackage, HasFields
<1> QED BY <1>6, <1>11, <1>12

LEMMA VisibleDecodes ==
    ASSUME NEW v, HasFields(v, {"user", "project"})
    PROVE  /\ DecodeCatalogVisible(EncodeCatalogVisible(v)) = {v}
           /\ ~Is("nothing", EncodeCatalogVisible(v))
<1>1. PICK o : o = [user |-> Bool(v.user), project |-> Bool(v.project)]
  OBVIOUS
<1>2. PICK j : j = Obj(o)
  OBVIOUS
<1>3. j = EncodeCatalogVisible(v) /\ j.obj = o /\ Is("obj", j) /\ ~Is("nothing", j)
  BY <1>1, <1>2 DEF EncodeCatalogVisible, Obj, Is
<1>4. DOMAIN o = {"user", "project"} /\ \A f \in DOMAIN o : ~Is("nothing", o[f])
  BY <1>1, BoolDecodes
<1>5. FieldIs(j, "user", Bool(v.user)) /\ FieldIs(j, "project", Bool(v.project))
  BY <1>1, <1>3, <1>4 DEF FieldIs, Reads
<1>6. Required(j, "user", DecodeBool) = {v.user} /\ Required(j, "project", DecodeBool) = {v.project}
  BY <1>5, RequiredBool
<1>7. DecodeCatalogVisible(j) = {[user |-> v.user, project |-> v.project]}
  BY <1>6 DEF DecodeCatalogVisible
<1>8. [user |-> v.user, project |-> v.project] = v
  BY DEF HasFields
<1> QED BY <1>3, <1>7, <1>8

LEMMA OptionalVisible ==
    ASSUME NEW j, NEW f, NEW S, AtMostOne(S), \A s \in S : HasFields(s, {"user", "project"}),
           OptionIs(j, f, {EncodeCatalogVisible(s) : s \in S})
    PROVE  Optional(j, f, DecodeCatalogVisible) = {S}
<1>1. CASE S = {}
  BY <1>1 DEF Optional, OptionIs
<1>2. CASE S # {}
  <2>1. PICK s \in S : S = {s}
    BY <1>2 DEF AtMostOne
  <2>2. {EncodeCatalogVisible(t) : t \in S} = {EncodeCatalogVisible(s)}
    BY <2>1
  <2>3. DecodeCatalogVisible(j.obj[f]) = S
    BY <1>2, <2>1, <2>2, TheOnly, VisibleDecodes DEF OptionIs
  <2>4. {{v} : v \in DecodeCatalogVisible(j.obj[f])} = {S}
    BY <1>2, <2>3, Wrapped
  <2> QED BY <1>2, <2>1, <2>2, <2>4 DEF Optional, OptionIs
<1> QED BY <1>1, <1>2

LEMMA OfferDecodes ==
    ASSUME NEW S, AtMostOne(S),
           \A list \in S : IsMap(list) /\ \A i \in DOMAIN list : IsPackage(list[i]),
           NEW j, j = IF S = {} THEN Arr(<<>>) ELSE ArrayOf(The(S), EncodePackage)
    PROVE  ~Is("nothing", j) /\ {{v} : v \in DecodePackages(j)} = {OrEmpty(S)}
<1>1. CASE S = {}
  BY <1>1, EmptyListsDecode DEF OrEmpty
<1>2. CASE S # {}
  <2>1. PICK list \in S : S = {list}
    BY <1>2 DEF AtMostOne
  <2>2. j = ArrayOf(list, EncodePackage)
    BY <1>2, <2>1, TheOnly
  <2>3. DecodePackages(j) = {list} /\ ~Is("nothing", j)
    BY <2>1, <2>2, PackagesDecode
  <2> QED BY <1>2, <2>1, <2>3 DEF OrEmpty
<1> QED BY <1>1, <1>2

(* A catalog is read as it is; a list of packages that is not given is read*)
(* as an empty one.                                                        *)
LEMMA CatalogDecodes ==
    ASSUME NEW c, IsCatalog(c)
    PROVE  /\ DecodeCatalog(EncodeCatalog(c)) = {[c EXCEPT !.packages = OrEmpty(@)]}
           /\ ~Is("nothing", EncodeCatalog(c))
<1>1. PICK pj : pj = IF c.packages = {} THEN Arr(<<>>) ELSE ArrayOf(The(c.packages), EncodePackage)
  OBVIOUS
<1>2. ~Is("nothing", pj) /\ {{v} : v \in DecodePackages(pj)} = {OrEmpty(c.packages)}
  BY <1>1, OfferDecodes DEF IsCatalog
<1>3. PICK fields : fields =
        [id |-> Str(c.id), name |-> EncodeLocalizedString(c.name), packages |-> pj]
  OBVIOUS
<1>4. PICK optional : optional =
        [description |-> {EncodeLocalizedString(d) : d \in c.description},
         status |-> {Str(s) : s \in c.status},
         highlightedPackages |-> {ArrayOf(l, Str) : l \in c.highlightedPackages},
         visible |-> {EncodeCatalogVisible(v) : v \in c.visible}]
  OBVIOUS
<1>5. PICK j : j = Object(fields, optional)
  OBVIOUS
<1>6. j = EncodeCatalog(c)
  BY <1>1, <1>3, <1>4, <1>5 DEF EncodeCatalog
<1>7. /\ \A f \in DOMAIN fields : ~Is("nothing", fields[f])
      /\ \A g \in DOMAIN optional : \A e \in optional[g] : ~Is("nothing", e)
      /\ DOMAIN fields \cap DOMAIN optional = {}
  <2>1. ~Is("nothing", EncodeLocalizedString(c.name))
    BY TextDecodes DEF IsCatalog
  <2>2. \A f \in DOMAIN fields : ~Is("nothing", fields[f])
    BY <1>2, <1>3, <2>1, StringDecodes
  <2>3. \A e \in optional["description"] : ~Is("nothing", e)
    <3>1. \A d \in c.description : ~Is("nothing", EncodeLocalizedString(d))
      BY TextDecodes DEF IsCatalog
    <3> QED BY <1>4, <3>1
  <2>4. \A e \in optional["status"] : ~Is("nothing", e)
    BY <1>4, StringDecodes
  <2>5. \A e \in optional["highlightedPackages"] : ~Is("nothing", e)
    <3>1. \A l \in c.highlightedPackages : ~Is("nothing", ArrayOf(l, Str))
      BY StringsDecodes DEF IsCatalog
    <3> QED BY <1>4, <3>1
  <2>6. \A e \in optional["visible"] : ~Is("nothing", e)
    <3>1. \A v \in c.visible : ~Is("nothing", EncodeCatalogVisible(v))
      BY VisibleDecodes DEF IsCatalog
    <3> QED BY <1>4, <3>1
  <2>7. DOMAIN optional = {"description", "status", "highlightedPackages", "visible"}
    BY <1>4
  <2>8. DOMAIN fields = {"id", "name", "packages"}
    BY <1>3
  <2> QED BY <2>2, <2>3, <2>4, <2>5, <2>6, <2>7, <2>8
<1>8. /\ \A f \in DOMAIN fields : FieldIs(j, f, fields[f])
      /\ \A g \in DOMAIN optional : OptionIs(j, g, optional[g])
  BY <1>5, <1>7, ObjectReads
<1>9. PICK ps : ps = DecodePackages(pj)
  OBVIOUS
<1>10. /\ Required(j, "id", DecodeString) = {c.id}
       /\ Required(j, "name", DecodeLocalizedString) = {c.name}
       /\ Required(j, "packages", DecodePackages) = ps
  <2>1. /\ FieldIs(j, "id", Str(c.id)) /\ FieldIs(j, "name", EncodeLocalizedString(c.name))
        /\ FieldIs(j, "packages", pj)
    BY <1>3, <1>8
  <2>2. Required(j, "packages", DecodePackages) = ps
    BY <1>9, <2>1 DEF FieldIs, Required
  <2>3. Required(j, "name", DecodeLocalizedString) = {c.name}
    BY <2>1, RequiredText DEF IsCatalog
  <2> QED BY <2>1, <2>2, <2>3, RequiredString
<1>11. Optional(j, "description", DecodeLocalizedString) = {c.description}
  <2>1. OptionIs(j, "description", {EncodeLocalizedString(d) : d \in c.description})
    BY <1>4, <1>8
  <2> QED BY <2>1, OptionalText DEF IsCatalog
<1>12. Optional(j, "status", DecodeCatalogStatus) = {c.status}
  <2>1. OptionIs(j, "status", {Str(s) : s \in c.status})
    BY <1>4, <1>8
  <2> QED BY <2>1, OptionalStatus DEF IsCatalog
<1>13. Optional(j, "highlightedPackages", DecodeStrings) = {c.highlightedPackages}
  <2>1. OptionIs(j, "highlightedPackages", {ArrayOf(l, Str) : l \in c.highlightedPackages})
    BY <1>4, <1>8
  <2> QED BY <2>1, OptionalStrings DEF IsCatalog
<1>14. Optional(j, "visible", DecodeCatalogVisible) = {c.visible}
  <2>1. OptionIs(j, "visible", {EncodeCatalogVisible(v) : v \in c.visible})
    BY <1>4, <1>8
  <2> QED BY <2>1, OptionalVisible DEF IsCatalog
<1>15. DecodeCatalog(j) =
         {[id |-> c.id, name |-> c.name, description |-> c.description, status |-> c.status,
           highlightedPackages |-> c.highlightedPackages, visible |-> c.visible,
           packages |-> OrEmpty(c.packages)]}
  <2>1. DecodeCatalog(j) =
         {[id |-> i, name |-> n, description |-> d, status |-> s, highlightedPackages |-> h,
           visible |-> v, packages |-> {p}] :
             i \in {c.id}, n \in {c.name}, d \in {c.description}, s \in {c.status},
             h \in {c.highlightedPackages}, v \in {c.visible}, p \in ps}
    BY ONLY <1>10, <1>11, <1>12, <1>13, <1>14 DEF DecodeCatalog
  <2>2. (\A p \in ps : {p} = OrEmpty(c.packages)) /\ (\E p \in ps : {p} = OrEmpty(c.packages))
    BY <1>2, <1>9
  <2>3. \A q : q \in DecodeCatalog(j) <=>
          \E p \in ps : q = [id |-> c.id, name |-> c.name, description |-> c.description,
                             status |-> c.status, highlightedPackages |-> c.highlightedPackages,
                             visible |-> c.visible, packages |-> {p}]
    BY <2>1
  <2> QED BY <2>2, <2>3
<1>16. [id |-> c.id, name |-> c.name, description |-> c.description, status |-> c.status,
        highlightedPackages |-> c.highlightedPackages, visible |-> c.visible,
        packages |-> OrEmpty(c.packages)] = [c EXCEPT !.packages = OrEmpty(@)]
  BY DEF IsCatalog, HasFields
<1>17. ~Is("nothing", j)
  BY <1>5 DEF Object, Obj, Is
<1> QED BY <1>6, <1>15, <1>16, <1>17

LEMMA ListingDecodes ==
    ASSUME NEW list, IsMap(list), \A i \in DOMAIN list : IsCatalog(list[i]),
           NEW read, read = [i \in DOMAIN list |-> [list[i] EXCEPT !.packages = OrEmpty(@)]]
    PROVE  /\ DecodeGetMyCatalogsOK(EncodeGetMyCatalogsOK(list)) = {read}
           /\ ValidateGetMyCatalogsOK(read)
<1>1. PICK j : j = EncodeGetMyCatalogsOK(list)
  OBVIOUS
<1>2. j.arr = [i \in DOMAIN list |-> EncodeCatalog(list[i])] /\ Is("arr", j)
  BY <1>1 DEF EncodeGetMyCatalogsOK, ArrayOf, Arr, Is
<1>3. DOMAIN j.arr = DOMAIN list /\ DOMAIN read = DOMAIN list
  BY <1>2
<1>4. \A i \in DOMAIN list : DecodeCatalog(j.arr[i]) = {read[i]}
  <2>1. TAKE i \in DOMAIN list
  <2>2. DecodeCatalog(EncodeCatalog(list[i])) = {[list[i] EXCEPT !.packages = OrEmpty(@)]}
    BY CatalogDecodes
  <2> QED BY <1>2, <2>2
<1>5. \A i \in DOMAIN list : DecodeCatalog(j.arr[i]) # {} /\ The(DecodeCatalog(j.arr[i])) = read[i]
  BY <1>4, TheOnly
<1>6. read = [i \in DOMAIN list |-> read[i]]
  OBVIOUS
<1>7. [i \in DOMAIN j.arr |-> The(DecodeCatalog(j.arr[i]))] = read
  BY <1>3, <1>5, <1>6
<1>8. List(j, DecodeCatalog) = {read}
  BY ONLY <1>2, <1>3, <1>5, <1>7 DEF List
<1>9. ASSUME NEW i \in DOMAIN list
      PROVE  ValidateCatalog(read[i])
  <2>1. IsCatalog(list[i])
    OBVIOUS
  <2>2. HasFields(list[i], {"id", "name", "description", "status", "highlightedPackages",
                            "visible", "packages"})
    BY <2>1 DEF IsCatalog
  <2>3. read[i].packages = OrEmpty(list[i].packages) /\ read[i].status = list[i].status
    BY <2>2 DEF HasFields
  <2>4. OrEmpty(list[i].packages) # {}
    BY DEF OrEmpty
  <2>5. \A s \in list[i].status : ValidateCatalogStatus(s)
    BY <2>1 DEF IsCatalog
  <2> QED BY <2>3, <2>4, <2>5 DEF ValidateCatalog
<1> QED BY <1>1, <1>3, <1>8, <1>9 DEF DecodeGetMyCatalogsOK, ValidateGetMyCatalogsOK

LEMMA DetailIsValid ==
    ASSUME NEW p, IsDetailedPackage(p)
    PROVE  ValidateDetailedPackage([p EXCEPT !.versions = OrEmpty(@)])
<1>1. HasFields(p, {"name", "description", "icon", "home", "versions"})
  BY DEF IsDetailedPackage
<1>2. [p EXCEPT !.versions = OrEmpty(@)].versions = OrEmpty(p.versions)
  BY <1>1 DEF HasFields
<1> QED BY <1>2 DEF ValidateDetailedPackage, OrEmpty

-----------------------------------------------------------------------------
(* Schemas, what became of an installation, and problems.                  *)

LEMMA SchemaDecodes ==
    ASSUME NEW schema, IsRawMap(schema)
    PROVE  DecodeGetPackageSchemaOK(EncodeGetPackageSchemaOK(schema)) = {schema}
BY RawsDecode DEF DecodeGetPackageSchemaOK, EncodeGetPackageSchemaOK

LEMMA AcceptedDecodes ==
    ASSUME NEW a, IsInstallAccepted(a)
    PROVE  DecodeInstallAccepted(EncodeInstallAccepted(a)) = {a}
<1>1. PICK u : u = a.eventsUrl
  OBVIOUS
<1>2. HasFields(u, {"release", "resources"}) /\ HasFields(a, {"eventsUrl"})
  BY <1>1 DEF IsInstallAccepted
<1>3. PICK o : o = [release |-> Str(u.release), resources |-> Str(u.resources)]
  OBVIOUS
<1>4. PICK k : k = Obj(o)
  OBVIOUS
<1>5. k = EncodeInstallAcceptedEventsUrl(u) /\ k.obj = o /\ Is("obj", k) /\ ~Is("nothing", k)
  BY <1>3, <1>4 DEF EncodeInstallAcceptedEventsUrl, Obj, Is
<1>6. DOMAIN o = {"release", "resources"} /\ \A f \in DOMAIN o : ~Is("nothing", o[f])
  BY <1>3, StringDecodes
<1>7. FieldIs(k, "release", Str(u.release)) /\ FieldIs(k, "resources", Str(u.resources))
  BY <1>3, <1>5, <1>6 DEF FieldIs, Reads
<1>8. /\ Required(k, "release", DecodeString) = {u.release}
      /\ Required(k, "resources", DecodeString) = {u.resources}
  BY <1>7, RequiredString
<1>9. DecodeInstallAcceptedEventsUrl(k) = {[release |-> u.release, resources |-> u.resources]}
  BY <1>8 DEF DecodeInstallAcceptedEventsUrl
<1>10. [release |-> u.release, resources |-> u.resources] = u
  BY <1>2 DEF HasFields
<1>11. PICK j : j = Obj([eventsUrl |-> k])
  OBVIOUS
<1>12. j = EncodeInstallAccepted(a)
  BY <1>1, <1>5, <1>11 DEF EncodeInstallAccepted
<1>13. j.obj = [eventsUrl |-> k] /\ Is("obj", j)
  BY <1>11 DEF Obj, Is
<1>14. Required(j, "eventsUrl", DecodeInstallAcceptedEventsUrl) = {u}
  BY <1>5, <1>9, <1>10, <1>13 DEF Required, Reads
<1>15. DecodeInstallAccepted(j) = {[eventsUrl |-> u]}
  BY <1>14 DEF DecodeInstallAccepted
<1>16. [eventsUrl |-> u] = a
  BY <1>1, <1>2 DEF HasFields
<1> QED BY <1>12, <1>15, <1>16

(* A problem keeps what no field of the type is for.                       *)
LEMMA ProblemDecodes ==
    ASSUME NEW p, IsProblem(p)
    PROVE  DecodeProblem(EncodeProblem(p)) = {p}
<1>1. PICK optional : optional =
        [type |-> {Str(t) : t \in p.type}, title |-> {Str(t) : t \in p.title},
         status |-> {Num(n) : n \in p.status}, detail |-> {Str(d) : d \in p.detail},
         instance |-> {Str(i) : i \in p.instance}]
  OBVIOUS
<1>2. PICK fields : fields = p.additional
  OBVIOUS
<1>3. PICK j : j = Object(fields, optional)
  OBVIOUS
<1>4. j = EncodeProblem(p)
  BY <1>1, <1>2, <1>3 DEF EncodeProblem
<1>5. DOMAIN optional = ProblemFields
  BY <1>1 DEF ProblemFields
<1>6. /\ \A f \in DOMAIN fields : ~Is("nothing", fields[f])
      /\ \A g \in DOMAIN optional : \A e \in optional[g] : ~Is("nothing", e)
      /\ DOMAIN fields \cap DOMAIN optional = {}
  <2>1. \A f \in DOMAIN fields : ~Is("nothing", fields[f])
    BY <1>2 DEF IsProblem, IsRawMap
  <2>2. \A g \in DOMAIN optional : \A e \in optional[g] : ~Is("nothing", e)
    BY <1>1, StringDecodes, NumberDecodes
  <2> QED BY <1>2, <1>5, <2>1, <2>2 DEF IsProblem
<1>7. /\ \A g \in DOMAIN optional : OptionIs(j, g, optional[g])
      /\ IsObjectOf(j.obj, fields, optional)
  BY <1>3, <1>6, ObjectReads
<1>8. \A f \in ProblemFields : AtMostOne(p[f])
  BY DEF IsProblem
<1>9. /\ Optional(j, "type", DecodeURI) = {p.type}
      /\ Optional(j, "title", DecodeString) = {p.title}
      /\ Optional(j, "status", DecodeInt) = {p.status}
      /\ Optional(j, "detail", DecodeString) = {p.detail}
      /\ Optional(j, "instance", DecodeString) = {p.instance}
  <2>1. /\ OptionIs(j, "type", {Str(t) : t \in p.type})
        /\ OptionIs(j, "title", {Str(t) : t \in p.title})
        /\ OptionIs(j, "status", {Num(n) : n \in p.status})
        /\ OptionIs(j, "detail", {Str(d) : d \in p.detail})
        /\ OptionIs(j, "instance", {Str(i) : i \in p.instance})
    BY <1>1, <1>7
  <2>2. /\ AtMostOne(p.type) /\ AtMostOne(p.title) /\ AtMostOne(p.status)
        /\ AtMostOne(p.detail) /\ AtMostOne(p.instance)
    BY <1>8 DEF ProblemFields
  <2> QED BY <2>1, <2>2, OptionalURI, OptionalString, OptionalNumber
<1>10. [f \in DOMAIN j.obj \ ProblemFields |-> j.obj[f]] = p.additional
  <2>1. DOMAIN j.obj \ ProblemFields = DOMAIN fields
    BY <1>5, <1>6, <1>7 DEF IsObjectOf
  <2>2. \A f \in DOMAIN fields : j.obj[f] = fields[f]
    BY <1>7 DEF IsObjectOf
  <2>3. fields = [f \in DOMAIN fields |-> fields[f]]
    BY <1>2 DEF IsProblem, IsRawMap, IsMap, HasFields
  <2> QED BY <1>2, <2>1, <2>2, <2>3
<1>11. PICK more : more = [f \in DOMAIN j.obj \ ProblemFields |-> j.obj[f]]
  OBVIOUS
<1>12. DecodeProblem(j) =
         {[type |-> p.type, title |-> p.title, status |-> p.status, detail |-> p.detail,
           instance |-> p.instance, additional |-> more]}
  BY ONLY <1>9, <1>11 DEF DecodeProblem
<1>13. [type |-> p.type, title |-> p.title, status |-> p.status, detail |-> p.detail,
        instance |-> p.instance, additional |-> p.additional] = p
  <2>1. ProblemFields \cup {"additional"} =
          {"type", "title", "status", "detail", "instance", "additional"}
    BY DEF ProblemFields
  <2> QED BY <2>1 DEF IsProblem, HasFields
<1> QED BY <1>4, <1>10, <1>11, <1>12, <1>13

-----------------------------------------------------------------------------
(* Responses and answers.                                                  *)

LEMMA ResponseIs ==
    ASSUME NEW r, HasFields(r, {"type", "value"}), NEW type, type = r.type
    PROVE  \A v : v = r.value => Heard(type, v) = [response |-> {r}, error |-> "none"]
<1>1. r = [type |-> r.type, value |-> r.value]
  BY DEF HasFields
<1> QED BY <1>1 DEF Heard, Response

LEMMA ProblemIsRead ==
    ASSUME NEW r, HasFields(r, {"type", "value"}), IsProblem(r.value), NEW status
    PROVE  /\ ReadProblem(Problem(status, r), r.type) = [response |-> {r}, error |-> "none"]
           /\ Problem(status, r).status = status
<1>1. PICK a : a = Problem(status, r)
  OBVIOUS
<1>2. a.status = status /\ a.ct = ProblemType /\ a.body = EncodeProblem(r.value)
  BY <1>1 DEF Problem, Answer
<1>3. DecodeProblem(a.body) = {r.value}
  BY <1>2, ProblemDecodes
<1>4. The(DecodeProblem(a.body)) = r.value
  BY <1>3, TheOnly
<1>5. ReadProblem(a, r.type) = Heard(r.type, r.value)
  BY <1>2, <1>3, <1>4 DEF ReadProblem, Reading, Anything
<1> QED BY <1>1, <1>2, <1>5, ResponseIs

LEMMA CatalogsAreRead ==
    ASSUME NEW r, IsResponse("getMyCatalogs", r)
    PROVE  decodeGetMyCatalogsResponse(encodeGetMyCatalogsResponse(r)) =
              [response |-> {AsRead(r)}, error |-> "none"]
<1>1. PICK a : a = encodeGetMyCatalogsResponse(r)
  OBVIOUS
<1>2. CASE r.type = "GetMyCatalogsOKApplicationJSON"
  <2>1. IsMap(r.value) /\ \A i \in DOMAIN r.value : IsCatalog(r.value[i])
    BY <1>2 DEF IsResponse, IsSuccess, ProblemTypes
  <2>2. PICK read : read = [i \in DOMAIN r.value |-> [r.value[i] EXCEPT !.packages = OrEmpty(@)]]
    OBVIOUS
  <2>3. a.status = 200 /\ a.ct = JsonType /\ a.body = EncodeGetMyCatalogsOK(r.value)
    BY <1>1, <1>2 DEF encodeGetMyCatalogsResponse, Json, Answer
  <2>4. DecodeGetMyCatalogsOK(a.body) = {read} /\ ValidateGetMyCatalogsOK(read)
    BY <2>1, <2>2, <2>3, ListingDecodes
  <2>5. The(DecodeGetMyCatalogsOK(a.body)) = read
    BY <2>4, TheOnly
  <2>6. decodeGetMyCatalogsResponse(a) = Heard("GetMyCatalogsOKApplicationJSON", read)
    BY <2>3, <2>4, <2>5 DEF decodeGetMyCatalogsResponse, Reading
  <2>7. AsRead(r) = Response(r.type, read)
    BY <1>2, <2>2 DEF AsRead
  <2> QED BY <1>1, <1>2, <2>6, <2>7 DEF Heard
<1>3. CASE r.type = "Problem"
  <2>1. HasFields(r, {"type", "value"}) /\ IsProblem(r.value)
    BY <1>3 DEF IsResponse, IsSuccess
  <2>2. a = Problem(500, r)
    BY <1>1, <1>3 DEF encodeGetMyCatalogsResponse
  <2>3. a.status = 500 /\ ReadProblem(a, r.type) = [response |-> {r}, error |-> "none"]
    BY <2>1, <2>2, ProblemIsRead
  <2>4. AsRead(r) = r
    BY <1>3 DEF AsRead
  <2> QED BY <1>1, <1>3, <2>3, <2>4 DEF decodeGetMyCatalogsResponse
<1> QED BY <1>2, <1>3 DEF IsResponse, IsSuccess, ProblemTypes

LEMMA PackageIsRead ==
    ASSUME NEW r, IsResponse("getMyPackage", r)
    PROVE  decodeGetMyPackageResponse(encodeGetMyPackageResponse(r)) =
              [response |-> {AsRead(r)}, error |-> "none"]
<1>1. PICK a : a = encodeGetMyPackageResponse(r)
  OBVIOUS
<1>2. CASE r.type = "DetailedPackage"
  <2>1. IsDetailedPackage(r.value)
    BY <1>2 DEF IsResponse, IsSuccess, ProblemTypes
  <2>2. PICK read : read = [r.value EXCEPT !.versions = OrEmpty(@)]
    OBVIOUS
  <2>3. a.status = 200 /\ a.ct = JsonType /\ a.body = EncodeDetailedPackage(r.value)
    BY <1>1, <1>2 DEF encodeGetMyPackageResponse, Json, Answer
  <2>4. DecodeDetailedPackage(a.body) = {read} /\ ValidateDetailedPackage(read)
    BY <2>1, <2>2, <2>3, DetailedPackageDecodes, DetailIsValid
  <2>5. The(DecodeDetailedPackage(a.body)) = read
    BY <2>4, TheOnly
  <2>6. decodeGetMyPackageResponse(a) = Heard("DetailedPackage", read)
    BY <2>3, <2>4, <2>5 DEF decodeGetMyPackageResponse, Reading
  <2>7. AsRead(r) = Response(r.type, read)
    BY <1>2, <2>2 DEF AsRead
  <2> QED BY <1>1, <1>2, <2>6, <2>7 DEF Heard
<1>3. CASE r.type # "DetailedPackage"
  <2>1. /\ HasFields(r, {"type", "value"}) /\ IsProblem(r.value)
        /\ r.type \in {"GetMyPackageNotFound", "GetMyPackageInternalServerError"}
    BY <1>3 DEF IsResponse, IsSuccess, ProblemTypes
  <2>2. PICK status : status = IF r.type = "GetMyPackageNotFound" THEN 404 ELSE 500
    OBVIOUS
  <2>3. a = Problem(status, r)
    BY <1>1, <2>1, <2>2 DEF encodeGetMyPackageResponse
  <2>4. a.status = status /\ ReadProblem(a, r.type) = [response |-> {r}, error |-> "none"]
    BY <2>1, <2>3, ProblemIsRead
  <2>5. AsRead(r) = r
    BY <2>1 DEF AsRead
  <2>6. decodeGetMyPackageResponse(a) = ReadProblem(a, r.type)
    BY <2>1, <2>2, <2>4 DEF decodeGetMyPackageResponse
  <2> QED BY <1>1, <2>4, <2>5, <2>6
<1> QED BY <1>2, <1>3

LEMMA SchemaIsRead ==
    ASSUME NEW r, IsResponse("getPackageSchema", r)
    PROVE  decodeGetPackageSchemaResponse(encodeGetPackageSchemaResponse(r)) =
              [response |-> {AsRead(r)}, error |-> "none"]
<1>1. PICK a : a = encodeGetPackageSchemaResponse(r)
  OBVIOUS
<1>2. CASE r.type = "GetPackageSchemaOK"
  <2>1. HasFields(r, {"type", "value"}) /\ IsRawMap(r.value)
    BY <1>2 DEF IsResponse, IsSuccess, ProblemTypes
  <2>2. a.status = 200 /\ a.ct = JsonType /\ a.body = EncodeGetPackageSchemaOK(r.value)
    BY <1>1, <1>2 DEF encodeGetPackageSchemaResponse, Json, Answer
  <2>3. DecodeGetPackageSchemaOK(a.body) = {r.value}
    BY <2>1, <2>2, SchemaDecodes
  <2>4. The(DecodeGetPackageSchemaOK(a.body)) = r.value
    BY <2>3, TheOnly
  <2>5. decodeGetPackageSchemaResponse(a) = Heard(r.type, r.value)
    BY <1>2, <2>2, <2>3, <2>4 DEF decodeGetPackageSchemaResponse, Reading, Anything
  <2>6. AsRead(r) = r
    BY <1>2 DEF AsRead
  <2> QED BY <1>1, <2>1, <2>5, <2>6, ResponseIs
<1>3. CASE r.type # "GetPackageSchemaOK"
  <2>1. /\ HasFields(r, {"type", "value"}) /\ IsProblem(r.value)
        /\ r.type \in {"GetPackageSchemaBadRequest", "GetPackageSchemaInternalServerError"}
    BY <1>3 DEF IsResponse, IsSuccess, ProblemTypes
  <2>2. PICK status : status = IF r.type = "GetPackageSchemaBadRequest" THEN 400 ELSE 500
    OBVIOUS
  <2>3. a = Problem(status, r)
    BY <1>1, <2>1, <2>2 DEF encodeGetPackageSchemaResponse
  <2>4. a.status = status /\ ReadProblem(a, r.type) = [response |-> {r}, error |-> "none"]
    BY <2>1, <2>3, ProblemIsRead
  <2>5. AsRead(r) = r
    BY <2>1 DEF AsRead
  <2>6. decodeGetPackageSchemaResponse(a) = ReadProblem(a, r.type)
    BY <2>1, <2>2, <2>4 DEF decodeGetPackageSchemaResponse
  <2> QED BY <1>1, <2>4, <2>5, <2>6
<1> QED BY <1>2, <1>3

LEMMA InstallationIsRead ==
    ASSUME NEW r, IsResponse("installService", r)
    PROVE  decodeInstallServiceResponse(encodeInstallServiceResponse(r)) =
              [response |-> {AsRead(r)}, error |-> "none"]
<1>1. PICK a : a = encodeInstallServiceResponse(r)
  OBVIOUS
<1>2. CASE r.type = "InstallAcceptedHeaders"
  <2>1. /\ HasFields(r, {"type", "value"}) /\ HasFields(r.value, {"location", "response"})
        /\ IsInstallAccepted(r.value.response)
    BY <1>2 DEF IsResponse, IsSuccess, ProblemTypes
  <2>2. /\ a.status = 202 /\ a.ct = JsonType /\ a.headers = <<r.value.location>>
        /\ a.body = EncodeInstallAccepted(r.value.response)
    BY <1>1, <1>2 DEF encodeInstallServiceResponse, Answer
  <2>3. DecodeInstallAccepted(a.body) = {r.value.response}
    BY <2>1, <2>2, AcceptedDecodes
  <2>4. InstallAcceptedHeaders(a) = {[location |-> r.value.location, response |-> r.value.response]}
    BY <2>2, <2>3 DEF InstallAcceptedHeaders
  <2>5. [location |-> r.value.location, response |-> r.value.response] = r.value
    BY <2>1 DEF HasFields
  <2>6. InstallAcceptedHeaders(a) = {r.value} /\ The(InstallAcceptedHeaders(a)) = r.value
    BY <2>4, <2>5, TheOnly
  <2>7. decodeInstallServiceResponse(a) = Heard(r.type, r.value)
    BY <1>2, <2>2, <2>6 DEF decodeInstallServiceResponse, Reading, Anything
  <2>8. AsRead(r) = r
    BY <1>2 DEF AsRead
  <2> QED BY <1>1, <2>1, <2>7, <2>8, ResponseIs
<1>3. CASE r.type # "InstallAcceptedHeaders"
  <2>1. /\ HasFields(r, {"type", "value"}) /\ IsProblem(r.value)
        /\ r.type \in {"InstallServiceBadRequest", "InstallServiceUnauthorized",
                         "InstallServiceForbidden", "InstallServiceConflict",
                         "InstallServiceInternalServerError"}
    BY <1>3 DEF IsResponse, IsSuccess, ProblemTypes
  <2>2. PICK status : status = IF r.type = "InstallServiceBadRequest" THEN 400
                            ELSE IF r.type = "InstallServiceUnauthorized" THEN 401
                            ELSE IF r.type = "InstallServiceForbidden" THEN 403
                            ELSE IF r.type = "InstallServiceConflict" THEN 409
                            ELSE 500
    OBVIOUS
  <2>3. a = Problem(status, r)
    BY <1>1, <2>1, <2>2 DEF encodeInstallServiceResponse
  <2>4. a.status = status /\ ReadProblem(a, r.type) = [response |-> {r}, error |-> "none"]
    BY <2>1, <2>3, ProblemIsRead
  <2>5. AsRead(r) = r
    BY <2>1 DEF AsRead
  <2>6. decodeInstallServiceResponse(a) = ReadProblem(a, r.type)
    BY <2>1, <2>2, <2>4 DEF decodeInstallServiceResponse
  <2> QED BY <1>1, <2>4, <2>5, <2>6
<1> QED BY <1>2, <1>3

LEMMA ReleaseStreamIsRead ==
    ASSUME NEW r, IsResponse("watchRelease", r)
    PROVE  decodeWatchReleaseResponse(encodeWatchReleaseResponse(r)) =
              [response |-> {AsRead(r)}, error |-> "none"]
<1>1. PICK a : a = encodeWatchReleaseResponse(r)
  OBVIOUS
<1>2. CASE r.type = "WatchReleaseOKHeaders"
  <2>1. HasFields(r, {"type", "value"}) /\ IsStream(r.value)
    BY <1>2 DEF IsResponse, IsSuccess, ProblemTypes
  <2>2. /\ a.status = 200 /\ a.ct = EventStream /\ a.body = r.value.data
        /\ a.headers = <<r.value.cacheControl, r.value.connection>>
    BY <1>1, <1>2 DEF encodeWatchReleaseResponse, Answer
  <2>3. [cacheControl |-> r.value.cacheControl, connection |-> r.value.connection,
         data |-> r.value.data] = r.value
    BY <2>1 DEF IsStream, HasFields
  <2>4. WatchOKHeaders(a) = {r.value} /\ The(WatchOKHeaders(a)) = r.value
    <3>1. a.headers[1] = r.value.cacheControl /\ a.headers[2] = r.value.connection
      BY <2>2
    <3>2. WatchOKHeaders(a) = {r.value}
      BY <2>2, <2>3, <3>1 DEF WatchOKHeaders
    <3> QED BY <3>2, TheOnly
  <2>5. decodeWatchReleaseResponse(a) = Heard(r.type, r.value)
    BY <1>2, <2>2, <2>4 DEF decodeWatchReleaseResponse, Reading, Anything
  <2>6. AsRead(r) = r
    BY <1>2 DEF AsRead
  <2> QED BY <1>1, <2>1, <2>5, <2>6, ResponseIs
<1>3. CASE r.type # "WatchReleaseOKHeaders"
  <2>1. /\ HasFields(r, {"type", "value"}) /\ IsProblem(r.value)
        /\ r.type \in {"WatchReleaseUnauthorized", "WatchReleaseForbidden",
                         "WatchReleaseNotFound"}
    BY <1>3 DEF IsResponse, IsSuccess, ProblemTypes
  <2>2. PICK status : status = IF r.type = "WatchReleaseUnauthorized" THEN 401 ELSE IF r.type = "WatchReleaseForbidden" THEN 403 ELSE 404
    OBVIOUS
  <2>3. a = Problem(status, r)
    BY <1>1, <2>1, <2>2 DEF encodeWatchReleaseResponse
  <2>4. a.status = status /\ ReadProblem(a, r.type) = [response |-> {r}, error |-> "none"]
    BY <2>1, <2>3, ProblemIsRead
  <2>5. AsRead(r) = r
    BY <2>1 DEF AsRead
  <2>6. decodeWatchReleaseResponse(a) = ReadProblem(a, r.type)
    BY <2>1, <2>2, <2>4 DEF decodeWatchReleaseResponse
  <2> QED BY <1>1, <2>4, <2>5, <2>6
<1> QED BY <1>2, <1>3

LEMMA ResourcesStreamIsRead ==
    ASSUME NEW r, IsResponse("watchResources", r)
    PROVE  decodeWatchResourcesResponse(encodeWatchResourcesResponse(r)) =
              [response |-> {AsRead(r)}, error |-> "none"]
<1>1. PICK a : a = encodeWatchResourcesResponse(r)
  OBVIOUS
<1>2. CASE r.type = "WatchResourcesOKHeaders"
  <2>1. HasFields(r, {"type", "value"}) /\ IsStream(r.value)
    BY <1>2 DEF IsResponse, IsSuccess, ProblemTypes
  <2>2. /\ a.status = 200 /\ a.ct = EventStream /\ a.body = r.value.data
        /\ a.headers = <<r.value.cacheControl, r.value.connection>>
    BY <1>1, <1>2 DEF encodeWatchResourcesResponse, Answer
  <2>3. [cacheControl |-> r.value.cacheControl, connection |-> r.value.connection,
         data |-> r.value.data] = r.value
    BY <2>1 DEF IsStream, HasFields
  <2>4. WatchOKHeaders(a) = {r.value} /\ The(WatchOKHeaders(a)) = r.value
    <3>1. a.headers[1] = r.value.cacheControl /\ a.headers[2] = r.value.connection
      BY <2>2
    <3>2. WatchOKHeaders(a) = {r.value}
      BY <2>2, <2>3, <3>1 DEF WatchOKHeaders
    <3> QED BY <3>2, TheOnly
  <2>5. decodeWatchResourcesResponse(a) = Heard(r.type, r.value)
    BY <1>2, <2>2, <2>4 DEF decodeWatchResourcesResponse, Reading, Anything
  <2>6. AsRead(r) = r
    BY <1>2 DEF AsRead
  <2> QED BY <1>1, <2>1, <2>5, <2>6, ResponseIs
<1>3. CASE r.type # "WatchResourcesOKHeaders"
  <2>1. /\ HasFields(r, {"type", "value"}) /\ IsProblem(r.value)
        /\ r.type \in {"WatchResourcesUnauthorized", "WatchResourcesForbidden",
                         "WatchResourcesNotFound"}
    BY <1>3 DEF IsResponse, IsSuccess, ProblemTypes
  <2>2. PICK status : status = IF r.type = "WatchResourcesUnauthorized" THEN 401 ELSE IF r.type = "WatchResourcesForbidden" THEN 403 ELSE 404
    OBVIOUS
  <2>3. a = Problem(status, r)
    BY <1>1, <2>1, <2>2 DEF encodeWatchResourcesResponse
  <2>4. a.status = status /\ ReadProblem(a, r.type) = [response |-> {r}, error |-> "none"]
    BY <2>1, <2>3, ProblemIsRead
  <2>5. AsRead(r) = r
    BY <2>1 DEF AsRead
  <2>6. decodeWatchResourcesResponse(a) = ReadProblem(a, r.type)
    BY <2>1, <2>2, <2>4 DEF decodeWatchResourcesResponse
  <2> QED BY <1>1, <2>4, <2>5, <2>6
<1> QED BY <1>2, <1>3

=============================================================================
