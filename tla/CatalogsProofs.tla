--------------------------- MODULE CatalogsProofs ---------------------------
(***************************************************************************)
(* Proofs about Catalogs, for any number of handlers, catalogs and indexes *)
(* published: how old an answer may be, what a listing has, and that no    *)
(* request panics.                                                         *)
(***************************************************************************)
EXTENDS Catalogs, CatalogRulesProofs

LEMMA ConfigType ==
    ASSUME TypeOK, NEW n \in DOMAIN config
    PROVE  /\ config[n] \in CatalogConfig /\ config[n].id \in CatalogIds
           /\ config[n].type \in {"helm", "oci"}
           /\ config[n].max \in {NoMax} \cup Int
           /\ n \in Nat
<1>1. config \in Seq(CatalogConfig)
  BY ConfigurationsAssumption DEF TypeOK
<1>2. config[n] \in CatalogConfig /\ n \in Nat
  BY <1>1
<1> QED BY <1>2 DEF CatalogConfig

AnswerRecord(r) ==
    /\ r = [status |-> r.status, entries |-> r.entries, versions |-> r.versions, blame |-> r.blame]
    /\ r.entries \in Seq(EntryRecord)

AnswerOK ==
    /\ answer' = [g \in Handlers |->
         [status |-> answer'[g].status, entries |-> answer'[g].entries,
          versions |-> answer'[g].versions, blame |-> answer'[g].blame]]
    /\ \A g \in Handlers : answer'[g].entries \in Seq(EntryRecord)

LEMMA RecordOf ==
    ASSUME NEW s, NEW es \in Seq(EntryRecord), NEW vs, NEW b
    PROVE  /\ AnswerRecord([status |-> s, entries |-> es, versions |-> vs, blame |-> b])
           /\ [status |-> s, entries |-> es, versions |-> vs, blame |-> b].entries = es
BY DEF AnswerRecord

LEMMA ReplaceStatus ==
    ASSUME NEW r, NEW s,
           r = [status |-> r.status, entries |-> r.entries,
                versions |-> r.versions, blame |-> r.blame]
    PROVE  [r EXCEPT !.status = s] =
              [status |-> s, entries |-> r.entries, versions |-> r.versions, blame |-> r.blame]
OBVIOUS

LEMMA ReplaceBlame ==
    ASSUME NEW r, NEW b,
           r = [status |-> r.status, entries |-> r.entries,
                versions |-> r.versions, blame |-> r.blame]
    PROVE  [r EXCEPT !.blame = b] =
              [status |-> r.status, entries |-> r.entries, versions |-> r.versions, blame |-> b]
OBVIOUS

LEMMA ReplaceEntries ==
    ASSUME NEW r, NEW es,
           r = [status |-> r.status, entries |-> r.entries,
                versions |-> r.versions, blame |-> r.blame]
    PROVE  [r EXCEPT !.entries = es] =
              [status |-> r.status, entries |-> es, versions |-> r.versions, blame |-> r.blame]
OBVIOUS

Shaped(r) ==
    r = [status |-> r.status, entries |-> r.entries, versions |-> r.versions, blame |-> r.blame]

LEMMA ReplaceTwo ==
    ASSUME NEW r, NEW s, NEW b, Shaped(r)
    PROVE  [[r EXCEPT !.status = s] EXCEPT !.blame = b] =
              [status |-> s, entries |-> r.entries, versions |-> r.versions, blame |-> b]
<1>1. PICK q : q = [r EXCEPT !.status = s]
  OBVIOUS
<1>2. q = [status |-> s, entries |-> r.entries, versions |-> r.versions, blame |-> r.blame]
  BY <1>1, ReplaceStatus, Zenon DEF Shaped
<1>3. /\ q.status = s /\ q.entries = r.entries /\ q.versions = r.versions /\ q.blame = r.blame
  BY <1>2
<1>4. q = [status |-> q.status, entries |-> q.entries, versions |-> q.versions, blame |-> q.blame]
  BY <1>2, <1>3, Zenon
<1>5. [q EXCEPT !.blame = b] =
         [status |-> q.status, entries |-> q.entries, versions |-> q.versions, blame |-> b]
  BY <1>4, ReplaceBlame, Zenon
<1> QED BY <1>1, <1>3, <1>5, Zenon

(* The answer of one handler is replaced.                                  *)
LEMMA AnswerType ==
    ASSUME TypeOK, NEW h \in Handlers, NEW r, AnswerRecord(r),
           answer' = [answer EXCEPT ![h] = r]
    PROVE  /\ answer'[h] = r
           /\ \A g \in Handlers : g # h => answer'[g] = answer[g]
           /\ AnswerOK
<1>1. DOMAIN answer = Handlers
  BY DEF TypeOK
<1>2. answer' = [g \in Handlers |-> IF g = h THEN r ELSE answer[g]]
  BY <1>1
<1>3. answer'[h] = r /\ \A g \in Handlers : g # h => answer'[g] = answer[g]
  BY <1>2
<1>4. \A g \in Handlers : AnswerRecord(answer[g])
  BY DEF TypeOK, AnswerRecord
<1>5. \A g \in Handlers : AnswerRecord(answer'[g])
  BY <1>3, <1>4
<1>6. answer' = [g \in Handlers |-> answer'[g]]
  BY <1>2
<1> QED BY <1>3, <1>5, <1>6 DEF AnswerOK, AnswerRecord

LEMMA ShapeOf ==
    ASSUME TypeOK, NEW h \in Handlers
    PROVE  answer[h] = [status |-> answer[h].status, entries |-> answer[h].entries,
                        versions |-> answer[h].versions, blame |-> answer[h].blame]
BY DEF TypeOK

-----------------------------------------------------------------------------

LEMMA InvInit == Init => IInv
<1> SUFFICES ASSUME Init PROVE IInv
  OBVIOUS
<1>0. 1 \in Serials /\ Serials \subseteq Nat \ {0}
  BY EntriesAssumption DEF Serials
<1>1. TypeOK
  <2>1. answer = [h \in Handlers |->
          [status |-> answer[h].status, entries |-> answer[h].entries,
           versions |-> answer[h].versions, blame |-> answer[h].blame]]
    <3>1. NoAnswer = [status |-> NoAnswer.status, entries |-> NoAnswer.entries,
                      versions |-> NoAnswer.versions, blame |-> NoAnswer.blame]
      BY DEF NoAnswer, Blank
    <3>2. answer = [h \in Handlers |-> NoAnswer]
      BY DEF Init
    <3> QED BY <3>1, <3>2
  <2>2. \A h \in Handlers : answer[h].entries \in Seq(EntryRecord)
    <3>1. NoAnswer.entries = <<>> /\ <<>> \in Seq(EntryRecord)
      BY DEF NoAnswer, Blank
    <3> QED BY <3>1 DEF Init
  <2>3. ask \in [Handlers -> Request]
    <3>1. [op |-> "list", user |-> Anonymous] \in [op: {"list"}, user: Users \cup {Anonymous}]
      BY Zenon
    <3> QED BY <3>1, Zenon DEF Init, Request
  <2>4. /\ upstream \in [CatalogIds -> Serials] /\ since \in [Handlers -> [CatalogIds -> Serials]]
        /\ file \in [CatalogIds -> {NoIndex} \cup Serials]
        /\ fetched \in [Handlers -> {NoIndex} \cup Serials]
    BY <1>0 DEF Init
  <2>5. /\ phase \in {"starting", "serving", "exited"} /\ config \in Configurations
        /\ pc \in [Handlers -> Busy \cup {"idle", "panicked"}] /\ at \in [Handlers -> Nat \ {0}]
        /\ crossed \in [Handlers -> SUBSET CatalogIds]
    BY DEF Init
  <2> QED BY <2>1, <2>2, <2>3, <2>4, <2>5 DEF TypeOK
<1>2. ASSUME NEW h \in Handlers PROVE PlacedAt(h) /\ OnItsWayTo(h)
  BY <1>0 DEF Init, PlacedAt, OnItsWayTo
<1>3. AnswersAreFresh
  BY DEF Init, AnswersAreFresh, FreshAnswer, NoAnswer, Blank
<1>4. NeverPanics
  BY DEF Init, NeverPanics
<1>5. ServesValidConfig
  BY DEF Init, ServesValidConfig
<1> QED BY <1>1, <1>2, <1>3, <1>4, <1>5 DEF IInv

(* What a step of h leaves alone when it touches no index.                 *)
Elsewhere(h) ==
    /\ UNCHANGED <<phase, config, upstream, file, ask, fetched, since, crossed>>
    /\ \A g \in Handlers : g # h => pc'[g] = pc[g] /\ at'[g] = at[g] /\ answer'[g] = answer[g]

LEMMA LocalStep ==
    ASSUME IInv, NEW h \in Handlers, pc[h] \in Busy, Elsewhere(h), AnswerOK,
           pc' \in [Handlers -> Busy \cup {"idle", "panicked"}], at' \in [Handlers -> Nat \ {0}],
           pc'[h] \in {"idle", "next", "oci", "fetch"},
           pc'[h] \in {"oci", "fetch"} => at'[h] \in DOMAIN config,
           pc'[h] = "oci" => ask[h].op # "list",
           FreshAnswer(h)'
    PROVE  IInv'
<1>1. TypeOK'
  BY DEF IInv, TypeOK, Elsewhere, AnswerOK
<1>2. ASSUME NEW g \in Handlers PROVE PlacedAt(g)'
  <2>1. PlacedAt(g) /\ PlacedAt(h)
    BY DEF IInv
  <2>2. CASE g = h
    BY <2>1, <2>2 DEF PlacedAt, Elsewhere, Busy
  <2>3. CASE g # h
    <3>1. id(g)' = id(g) /\ pc'[g] = pc[g] /\ at'[g] = at[g]
      BY <2>3 DEF id, catalog, Elsewhere
    <3>2. UNCHANGED <<phase, config, file, fetched, ask>>
      BY DEF Elsewhere
    <3> QED BY <2>1, <3>1, <3>2 DEF PlacedAt
  <2> QED BY <2>2, <2>3
<1>3. ASSUME NEW g \in Handlers PROVE OnItsWayTo(g)'
  <2>1. OnItsWayTo(g)
    BY DEF IInv
  <2>2. \A i, s : Recent(g, i, s)' <=> Recent(g, i, s)
    BY DEF Recent, Elsewhere
  <2>3. UNCHANGED <<upstream, since, file, fetched>>
    BY DEF Elsewhere
  <2>4. \A i \in CatalogIds : since'[g][i] <= upstream'[i]
    BY <2>1, <2>3 DEF OnItsWayTo
  <2>5. ASSUME pc'[g] = "load" PROVE Recent(g, id(g), file[id(g)])'
    <3>1. g # h /\ pc[g] = "load" /\ id(g)' = id(g)
      BY <2>5 DEF Elsewhere, id, catalog
    <3>2. Recent(g, id(g), file[id(g)])
      BY <2>1, <3>1 DEF OnItsWayTo
    <3> QED BY <2>3, <3>1, <3>2 DEF Recent, Elsewhere
  <2>6. ASSUME NEW w \in Handlers, pc'[g] # "idle", pc'[w] = "store"
        PROVE  Recent(g, id(w), fetched[w])'
    <3>1. w # h /\ pc[w] = "store" /\ id(w)' = id(w)
      BY <2>6 DEF Elsewhere, id, catalog
    <3>2. pc[g] # "idle"
      BY <2>6 DEF Elsewhere, Busy
    <3>3. Recent(g, id(w), fetched[w])
      BY <2>1, <3>1, <3>2 DEF OnItsWayTo
    <3> QED BY <3>1, <3>3 DEF Recent, Elsewhere
  <2> QED BY <2>4, <2>5, <2>6 DEF OnItsWayTo
<1>4. AnswersAreFresh'
  <2>1. ASSUME NEW g \in Handlers, g # h PROVE FreshAnswer(g)'
    <3>1. FreshAnswer(g)
      BY DEF IInv, AnswersAreFresh
    <3> QED BY <2>1, <3>1 DEF FreshAnswer, Recent, Elsewhere
  <2> QED BY <2>1 DEF AnswersAreFresh
<1>5. NeverPanics'
  BY DEF IInv, NeverPanics, Elsewhere
<1>6. ServesValidConfig'
  BY DEF IInv, ServesValidConfig, Elsewhere
<1> QED BY <1>1, <1>2, <1>3, <1>4, <1>5, <1>6 DEF IInv

-----------------------------------------------------------------------------

LEMMA AnswerStep ==
    ASSUME IInv, NEW h \in Handlers, NEW status, pc[h] \in Busy, Answer(h, status),
           UNCHANGED <<phase, config, upstream, file, ask, at, fetched, since, crossed>>
    PROVE  IInv'
<1>0. TypeOK
  BY DEF IInv
<1>b. PICK b : answer' = [answer EXCEPT ![h] = [[answer[h] EXCEPT !.status = status] EXCEPT !.blame = b]]
  <2> DEFINE b0 == IF status = 500 THEN at[h] ELSE 0
  <2>1. answer' = [answer EXCEPT ![h] = [[answer[h] EXCEPT !.status = status] EXCEPT !.blame = b0]]
    BY DEF Answer
  <2> HIDE DEF b0
  <2> QED BY <2>1, Zenon
<1>1. answer' = [answer EXCEPT ![h] =
         [status |-> status, entries |-> answer[h].entries,
          versions |-> answer[h].versions, blame |-> b]]
  <2>1. Shaped(answer[h])
    BY <1>0, ShapeOf DEF Shaped
  <2>2. [[answer[h] EXCEPT !.status = status] EXCEPT !.blame = b] =
           [status |-> status, entries |-> answer[h].entries,
            versions |-> answer[h].versions, blame |-> b]
    BY <2>1, ReplaceTwo, Zenon
  <2> QED BY <1>b, <2>2
<1>2. answer[h].entries \in Seq(EntryRecord)
  BY <1>0 DEF TypeOK
<1>3. /\ AnswerOK /\ answer'[h].entries = answer[h].entries
      /\ \A g \in Handlers : g # h => answer'[g] = answer[g]
  <2> DEFINE r == [status |-> status, entries |-> answer[h].entries,
                   versions |-> answer[h].versions, blame |-> b]
  <2>1. AnswerRecord(r) /\ r.entries = answer[h].entries
    BY <1>2, RecordOf, Zenon
  <2> HIDE DEF r
  <2>2. answer' = [answer EXCEPT ![h] = r]
    BY <1>1 DEF r
  <2> QED BY <1>0, <2>1, <2>2, AnswerType, Zenon
<1>4. pc' = [pc EXCEPT ![h] = "idle"]
  BY DEF Answer, Goto
<1>5. pc' \in [Handlers -> Busy \cup {"idle", "panicked"}] /\ at' \in [Handlers -> Nat \ {0}]
      /\ pc'[h] = "idle" /\ \A g \in Handlers : g # h => pc'[g] = pc[g]
  BY <1>0, <1>4 DEF TypeOK
<1>6. FreshAnswer(h)'
  BY <1>3 DEF IInv, AnswersAreFresh, FreshAnswer, Recent
<1>7. Elsewhere(h)
  BY <1>3, <1>5 DEF Elsewhere
<1> QED BY <1>3, <1>5, <1>6, <1>7, LocalStep

LEMMA AddStep ==
    ASSUME IInv, NEW h \in Handlers, pc[h] \in Busy, NEW e \in EntryRecord, Add(h, e),
           e.serial # NoIndex => Recent(h, e.id, e.serial),
           UNCHANGED <<phase, config, upstream, file, ask, fetched, since, crossed>>
    PROVE  IInv'
<1>0. TypeOK
  BY DEF IInv
<1> DEFINE es == Append(answer[h].entries, e)
<1>1. answer' = [answer EXCEPT ![h] =
         [status |-> answer[h].status, entries |-> es,
          versions |-> answer[h].versions, blame |-> answer[h].blame]]
  <2>1. answer[h] = [status |-> answer[h].status, entries |-> answer[h].entries,
                     versions |-> answer[h].versions, blame |-> answer[h].blame]
    BY <1>0, ShapeOf
  <2>2. [answer[h] EXCEPT !.entries = es] =
           [status |-> answer[h].status, entries |-> es,
            versions |-> answer[h].versions, blame |-> answer[h].blame]
    BY <2>1, ReplaceEntries, Zenon
  <2>3. answer' = [answer EXCEPT ![h] = [answer[h] EXCEPT !.entries = es]]
    BY DEF Add
  <2> QED BY <2>2, <2>3
<1>2. answer[h].entries \in Seq(EntryRecord) /\ es \in Seq(EntryRecord)
  BY <1>0 DEF TypeOK
<1>3. /\ AnswerOK /\ answer'[h].entries = es
      /\ \A g \in Handlers : g # h => answer'[g] = answer[g]
  <2> DEFINE r == [status |-> answer[h].status, entries |-> es,
                   versions |-> answer[h].versions, blame |-> answer[h].blame]
  <2>1. AnswerRecord(r) /\ r.entries = es
    BY <1>2, RecordOf, Zenon
  <2> HIDE DEF r
  <2>2. answer' = [answer EXCEPT ![h] = r]
    BY <1>1 DEF r
  <2> QED BY <1>0, <2>1, <2>2, AnswerType, Zenon
<1>4. pc' = [pc EXCEPT ![h] = "next"] /\ at' = [at EXCEPT ![h] = @ + 1]
  BY DEF Add, Goto
<1>5. /\ pc' \in [Handlers -> Busy \cup {"idle", "panicked"}] /\ at' \in [Handlers -> Nat \ {0}]
      /\ pc'[h] = "next" /\ \A g \in Handlers : g # h => pc'[g] = pc[g] /\ at'[g] = at[g]
  BY <1>0, <1>4 DEF TypeOK, Busy
<1>6. FreshAnswer(h)'
  <2>1. ASSUME NEW k \in DOMAIN es
        PROVE  es[k].serial # NoIndex => Recent(h, es[k].id, es[k].serial)
    <3>1. CASE k \in DOMAIN answer[h].entries
      <4>1. es[k] = answer[h].entries[k]
        BY <3>1, <1>2
      <4> QED BY <3>1, <4>1 DEF IInv, AnswersAreFresh, FreshAnswer
    <3>2. CASE k \notin DOMAIN answer[h].entries
      <4>1. es[k] = e
        BY <3>2, <1>2
      <4> QED BY <4>1
    <3> QED BY <3>1, <3>2
  <2> QED BY <1>3, <2>1 DEF FreshAnswer, Recent
<1>7. Elsewhere(h)
  BY <1>3, <1>5 DEF Elsewhere
<1> QED BY <1>3, <1>5, <1>6, <1>7, LocalStep

LEMMA ShowStep ==
    ASSUME IInv, NEW h \in Handlers, pc[h] \in Busy, at[h] \in DOMAIN config,
           NEW names \in SUBSET PackageNames, NEW serial \in {NoIndex} \cup Serials,
           NEW versions, Show(h, names, serial, versions, 200),
           serial # NoIndex => Recent(h, id(h), serial),
           UNCHANGED <<phase, config, upstream, file, ask, at, fetched, since, crossed>>
    PROVE  IInv'
<1>0. TypeOK
  BY DEF IInv
<1> DEFINE e == Entry(h, names, serial)
<1>1. e \in EntryRecord /\ e.id = id(h) /\ e.serial = serial
  <2>1. id(h) \in CatalogIds
    BY <1>0, ConfigType DEF id, catalog
  <2> QED BY <2>1 DEF Entry, EntryRecord
<1>2. <<e>> \in Seq(EntryRecord)
  BY <1>1
<1>3. answer' = [answer EXCEPT ![h] =
         [status |-> 200, entries |-> <<e>>, versions |-> versions, blame |-> 0]]
  BY DEF Show
<1>4. /\ AnswerOK /\ answer'[h].entries = <<e>>
      /\ \A g \in Handlers : g # h => answer'[g] = answer[g]
  <2>e. PICK es : es = <<e>>
    OBVIOUS
  <2>r. PICK r : r = [status |-> 200, entries |-> es, versions |-> versions, blame |-> 0]
    OBVIOUS
  <2>1. AnswerRecord(r) /\ r.entries = <<e>>
    <3>1. r.status = 200 /\ r.entries = es /\ r.versions = versions /\ r.blame = 0
      BY <2>r
    <3>2. es \in Seq(EntryRecord)
      BY <1>2, <2>e
    <3> QED BY <2>e, <2>r, <3>1, <3>2 DEF AnswerRecord
  <2>2. answer' = [answer EXCEPT ![h] = r]
    BY <1>3, <2>e, <2>r
  <2> QED BY <1>0, <2>1, <2>2, AnswerType, Zenon
<1>5. pc' = [pc EXCEPT ![h] = "idle"]
  BY DEF Show, Goto
<1>6. pc' \in [Handlers -> Busy \cup {"idle", "panicked"}] /\ at' \in [Handlers -> Nat \ {0}]
      /\ pc'[h] = "idle" /\ \A g \in Handlers : g # h => pc'[g] = pc[g]
  BY <1>0, <1>5 DEF TypeOK
<1>7. FreshAnswer(h)'
  BY <1>1, <1>4 DEF FreshAnswer, Recent
<1>8. Elsewhere(h)
  BY <1>4, <1>6 DEF Elsewhere
<1> QED BY <1>4, <1>6, <1>7, <1>8, LocalStep

(* A step that moves the handler on and adds nothing to its answer.        *)
LEMMA MoveStep ==
    ASSUME IInv, NEW h \in Handlers, pc[h] \in Busy, NEW label \in {"next", "oci", "fetch"},
           NEW n \in Nat \ {0}, Goto(h, label), at' = [at EXCEPT ![h] = n],
           label \in {"oci", "fetch"} => n \in DOMAIN config,
           label = "oci" => ask[h].op # "list",
           UNCHANGED <<phase, config, upstream, file, ask, fetched, answer, since, crossed>>
    PROVE  IInv'
<1>1. /\ pc' \in [Handlers -> Busy \cup {"idle", "panicked"}] /\ at' \in [Handlers -> Nat \ {0}]
      /\ pc'[h] = label /\ at'[h] = n
      /\ \A g \in Handlers : g # h => pc'[g] = pc[g] /\ at'[g] = at[g]
  BY DEF IInv, TypeOK, Goto, Busy
<1>2. AnswerOK
  BY DEF IInv, TypeOK, AnswerOK
<1>3. FreshAnswer(h)'
  BY DEF IInv, AnswersAreFresh, FreshAnswer, Recent
<1>4. Elsewhere(h)
  BY <1>1 DEF Elsewhere
<1> QED BY <1>1, <1>2, <1>3, <1>4, LocalStep

LEMMA SeqElement ==
    ASSUME NEW S, NEW q \in Seq(S), NEW i \in DOMAIN q
    PROVE  q[i] \in S
OBVIOUS

LEMMA OCIEntry ==
    ASSUME TypeOK, NEW h \in Handlers, at[h] \in DOMAIN config
    PROVE  /\ Entry(h, listOCIPackages(catalog(h)), NoIndex) \in EntryRecord
           /\ Entry(h, listOCIPackages(catalog(h)), NoIndex).serial = NoIndex
<1>1. id(h) \in CatalogIds /\ catalog(h) \in CatalogConfig
  BY ConfigType DEF id, catalog
<1>2. catalog(h).packages \in Seq([name: PackageNames, versions: Seq(Version)])
  BY <1>1 DEF CatalogConfig
<1>3. ASSUME NEW i \in DOMAIN catalog(h).packages
      PROVE  catalog(h).packages[i].name \in PackageNames
  <2>1. catalog(h).packages[i] \in [name: PackageNames, versions: Seq(Version)]
    BY <1>2, SeqElement, Zenon
  <2> QED BY <2>1
<1>4. listOCIPackages(catalog(h)) \in SUBSET PackageNames
  BY <1>3 DEF listOCIPackages
<1> QED BY <1>1, <1>4 DEF Entry, EntryRecord

LEMMA buildCatalogsStep ==
    ASSUME IInv, NEW h \in Handlers, buildCatalogs(h)
    PROVE  IInv'
<1>0. /\ TypeOK /\ pc[h] = "next" /\ pc[h] \in Busy /\ at[h] \in Nat \ {0}
      /\ UNCHANGED <<phase, config, upstream, file, ask, fetched, since, crossed>>
  BY DEF buildCatalogs, IInv, TypeOK, Busy, process, history
<1>d. at[h] <= Len(config) => at[h] \in DOMAIN config
  BY <1>0, ConfigurationsAssumption DEF TypeOK
<1>1. CASE Answer(h, 200) /\ UNCHANGED at
  BY <1>0, <1>1, AnswerStep
<1>2. CASE at' = [at EXCEPT ![h] = @ + 1] /\ UNCHANGED <<pc, answer>>
  <2>1. Goto(h, "next")
    BY <1>0, <1>2 DEF Goto, TypeOK
  <2>2. at' = [at EXCEPT ![h] = at[h] + 1] /\ at[h] + 1 \in Nat \ {0}
    BY <1>0, <1>2
  <2> QED BY <1>0, <1>2, <2>1, <2>2, MoveStep
<1>3. CASE at[h] <= Len(config) /\ Add(h, Entry(h, listOCIPackages(catalog(h)), NoIndex))
  BY <1>0, <1>3, <1>d, OCIEntry, AddStep
<1>4. CASE at[h] <= Len(config) /\ Goto(h, "fetch") /\ UNCHANGED <<at, answer>>
  <2>1. at' = [at EXCEPT ![h] = at[h]]
    BY <1>0, <1>4 DEF TypeOK
  <2> QED BY <1>0, <1>4, <1>d, <2>1, MoveStep
<1> QED BY <1>1, <1>2, <1>3, <1>4 DEF buildCatalogs

LEMMA findCatalogStep ==
    ASSUME IInv, NEW h \in Handlers, findCatalog(h)
    PROVE  IInv'
<1>0. /\ TypeOK /\ pc[h] = "find" /\ pc[h] \in Busy /\ ask[h].op # "list"
      /\ UNCHANGED <<phase, config, upstream, file, ask, fetched, since, crossed>>
  BY DEF findCatalog, IInv, PlacedAt, Busy, process, history
<1>1. CASE UNCHANGED at /\ \E status \in {404, 500} : Answer(h, status)
  BY <1>0, <1>1, AnswerStep
<1>2. CASE \E n \in DOMAIN config : \E label \in {"oci", "fetch"} :
              at' = [at EXCEPT ![h] = n] /\ Goto(h, label) /\ UNCHANGED answer
  <2>1. PICK n \in DOMAIN config, label \in {"oci", "fetch"} :
            at' = [at EXCEPT ![h] = n] /\ Goto(h, label) /\ UNCHANGED answer
    BY <1>2
  <2>2. n \in Nat \ {0}
    BY <1>0, ConfigurationsAssumption DEF TypeOK
  <2> QED BY <1>0, <2>1, <2>2, MoveStep
<1>3. ASSUME NEW n \in DOMAIN config, at' = [at EXCEPT ![h] = n], UNCHANGED answer,
             Goto(h, IF config[n].type = "oci" THEN "oci" ELSE "fetch")
      PROVE  \E k \in DOMAIN config : \E label \in {"oci", "fetch"} :
                at' = [at EXCEPT ![h] = k] /\ Goto(h, label) /\ UNCHANGED answer
  BY <1>3
<1> QED BY <1>1, <1>2, <1>3 DEF findCatalog

LEMMA AskType ==
    ASSUME TypeOK, NEW h \in Handlers, ask[h].op # "list"
    PROVE  ask[h].name \in PackageNames
BY DEF TypeOK, Request

LEMMA getOCIPackageStep ==
    ASSUME IInv, NEW h \in Handlers, getOCIPackage(h)
    PROVE  IInv'
<1>0. /\ TypeOK /\ pc[h] \in Busy /\ ask[h].op # "list" /\ at[h] \in DOMAIN config
      /\ UNCHANGED <<phase, config, upstream, file, ask, at, fetched, since, crossed>>
  BY DEF getOCIPackage, IInv, PlacedAt, Busy, process, history
<1>1. CASE Answer(h, 500)
  BY <1>0, <1>1, AnswerStep
<1>2. CASE \E versions : Show(h, {ask[h].name}, NoIndex, versions, 200)
  <2>1. {ask[h].name} \in SUBSET PackageNames
    BY <1>0, AskType
  <2>2. PICK versions : Show(h, {ask[h].name}, NoIndex, versions, 200)
    BY <1>2
  <2> QED BY <1>0, <2>1, <2>2, ShowStep
<1> QED BY <1>1, <1>2, Zenon DEF getOCIPackage

LEMMA CallFailsStep ==
    ASSUME IInv, NEW h \in Handlers, CallFails(h)
    PROVE  IInv'
BY AnswerStep DEF CallFails, Busy, process, history

(* A request panics only in mode maxNumber without a bound, or with one    *)
(* that is negative: ValidateCatalogsConfig lets neither pass.             *)
LEMMA ValidNeverPanics ==
    ASSUME TypeOK, ValidateCatalogsConfig(config), NEW n \in DOMAIN config, NEW versions
    PROVE  ~FilterPanics(config[n], versions)
<1>1. validateCommon(config[n])
  BY DEF ValidateCatalogsConfig, ValidateCatalogConfig
<1>2. config[n].max \in {NoMax} \cup Int
  BY ConfigType
<1> QED BY <1>1, <1>2 DEF validateCommon, FilterPanics

LEMMA LoadIndexFileStep ==
    ASSUME IInv, NEW h \in Handlers, LoadIndexFile(h)
    PROVE  IInv'
<1> DEFINE serial == file[id(h)]
           index == Entries[serial][id(h)]
<1>0. /\ TypeOK /\ pc[h] = "load" /\ pc[h] \in Busy /\ at[h] \in DOMAIN config
      /\ serial \in Serials /\ Recent(h, id(h), serial)
      /\ phase = "serving"
      /\ UNCHANGED <<phase, config, upstream, file, ask, fetched, since, crossed>>
  BY DEF LoadIndexFile, IInv, PlacedAt, OnItsWayTo, Busy, process, history
<1>i. id(h) \in CatalogIds
  BY <1>0, ConfigType DEF id, catalog
<1>1. CASE Add(h, Entry(h, listHelmPackages(catalog(h), index), serial))
  <2>1. listHelmPackages(catalog(h), index) \in SUBSET PackageNames
    BY DEF listHelmPackages
  <2>2. PICK names \in SUBSET PackageNames : names = listHelmPackages(catalog(h), index)
    BY <2>1
  <2>3. /\ Entry(h, names, serial) \in EntryRecord
        /\ Entry(h, names, serial).id = id(h) /\ Entry(h, names, serial).serial = serial
    BY <1>0, <1>i DEF Entry, EntryRecord
  <2>4. Add(h, Entry(h, names, serial))
    BY <1>1, <2>2
  <2> QED BY <1>0, <2>3, <2>4, AddStep
<1>2. CASE UNCHANGED at /\ \E status \in {404, 500} : Answer(h, status)
  BY <1>0, <1>2, AnswerStep
<1>3. CASE /\ UNCHANGED at /\ ask[h].op # "list"
           /\ \E versions : Show(h, {ask[h].name}, serial, versions, 200)
  <2>1. {ask[h].name} \in SUBSET PackageNames
    BY <1>0, <1>3, AskType
  <2>2. PICK versions : Show(h, {ask[h].name}, serial, versions, 200)
    BY <1>3
  <2> QED BY <1>0, <1>3, <2>1, <2>2, ShowStep
<1>4. ASSUME getHelmPackage(h, serial, index)
      PROVE  \/ Answer(h, 404)
             \/ \E versions : Show(h, {ask[h].name}, serial, versions, 200)
  <2>1. ValidateCatalogsConfig(config)
    BY <1>0 DEF IInv, ServesValidConfig
  <2>2. \A versions : ~FilterPanics(catalog(h), versions)
    BY <1>0, <2>1, ValidNeverPanics DEF catalog
  <2> QED BY <1>4, <2>2, Zenon DEF getHelmPackage
<1>5. \/ Add(h, Entry(h, listHelmPackages(catalog(h), index), serial))
      \/ /\ UNCHANGED at /\ ask[h].op = "package"
         /\ getHelmPackage(h, serial, index)
      \/ /\ UNCHANGED at /\ ask[h].op = "resolve"
         /\ \/ Show(h, {ask[h].name}, serial, <<ask[h].version>>, 200)
            \/ Answer(h, 500)
  BY DEF LoadIndexFile
<1>6. ask[h].op \in {"package", "resolve"} => ask[h].op # "list"
  OBVIOUS
<1> QED BY <1>1, <1>2, <1>3, <1>4, <1>5, <1>6

LEMMA DownloadIndexFileStep ==
    ASSUME IInv, NEW h \in Handlers, DownloadIndexFile(h)
    PROVE  IInv'
<1>0. /\ TypeOK /\ pc[h] = "fetch" /\ at[h] \in DOMAIN config /\ id(h) \in CatalogIds
      /\ upstream[id(h)] \in Serials
      /\ UNCHANGED <<phase, config, upstream, file, ask, at, answer, since, crossed>>
  <2>1. TypeOK /\ pc[h] = "fetch" /\ at[h] \in DOMAIN config
    BY DEF DownloadIndexFile, IInv, PlacedAt
  <2>2. id(h) \in CatalogIds
    BY <2>1, ConfigType DEF id, catalog
  <2> QED BY <2>1, <2>2 DEF DownloadIndexFile, TypeOK, process, history
<1>1. /\ fetched' = [fetched EXCEPT ![h] = upstream[id(h)]]
      /\ pc' = [pc EXCEPT ![h] = "store"]
  BY DEF DownloadIndexFile, Goto
<1>2. /\ fetched' \in [Handlers -> {NoIndex} \cup Serials]
      /\ pc' \in [Handlers -> Busy \cup {"idle", "panicked"}]
      /\ pc'[h] = "store" /\ fetched'[h] = upstream[id(h)]
      /\ \A g \in Handlers : g # h => pc'[g] = pc[g] /\ fetched'[g] = fetched[g]
  BY <1>0, <1>1 DEF TypeOK, Busy
<1>3. TypeOK'
  BY <1>0, <1>2 DEF TypeOK
<1>4. \A g \in Handlers : id(g)' = id(g)
  BY <1>0 DEF id, catalog
<1>r. \A g \in Handlers : \A i, s : Recent(g, i, s)' <=> Recent(g, i, s)
  BY <1>0 DEF Recent
<1>5. ASSUME NEW g \in Handlers PROVE PlacedAt(g)'
  <2>1. PlacedAt(g)
    BY DEF IInv
  <2>2. CASE g = h
    BY <1>0, <1>2, <2>1, <2>2 DEF PlacedAt
  <2>3. CASE g # h
    BY <1>0, <1>2, <1>4, <2>1, <2>3 DEF PlacedAt
  <2> QED BY <2>2, <2>3
<1>6. ASSUME NEW g \in Handlers PROVE OnItsWayTo(g)'
  <2>1. OnItsWayTo(g)
    BY DEF IInv
  <2>2. \A i \in CatalogIds : since'[g][i] <= upstream'[i]
    BY <1>0, <2>1 DEF OnItsWayTo
  <2>3. ASSUME pc'[g] = "load" PROVE Recent(g, id(g), file[id(g)])'
    <3>1. pc[g] = "load"
      BY <1>2, <2>3
    <3>2. Recent(g, id(g), file[id(g)])
      BY <2>1, <3>1 DEF OnItsWayTo
    <3> QED BY <1>0, <1>4, <3>2 DEF Recent
  <2>4. ASSUME NEW w \in Handlers, pc'[g] # "idle", pc'[w] = "store"
        PROVE  Recent(g, id(w), fetched[w])'
    <3>1. CASE w = h
      <4>1. since[g][id(h)] <= upstream[id(h)]
        BY <1>0, <2>1 DEF OnItsWayTo
      <4>2. since[g][id(h)] \in Nat /\ upstream[id(h)] \in Nat
        BY <1>0 DEF TypeOK, Serials
      <4>3. Recent(g, id(h), upstream[id(h)])
        BY <4>1, <4>2 DEF Recent
      <4> QED BY <1>0, <1>2, <1>4, <3>1, <4>3 DEF Recent
    <3>2. CASE w # h
      <4>1. pc[g] # "idle" /\ pc[w] = "store"
        BY <1>0, <1>2, <2>4, <3>2
      <4>2. Recent(g, id(w), fetched[w])
        BY <2>1, <4>1 DEF OnItsWayTo
      <4> QED BY <1>0, <1>2, <1>4, <3>2, <4>2 DEF Recent
    <3> QED BY <3>1, <3>2
  <2> QED BY <2>2, <2>3, <2>4 DEF OnItsWayTo
<1>7. AnswersAreFresh'
  BY <1>0 DEF IInv, AnswersAreFresh, FreshAnswer, Recent
<1>8. NeverPanics' /\ ServesValidConfig'
  BY <1>0, <1>2 DEF IInv, NeverPanics, ServesValidConfig
<1> QED BY <1>3, <1>5, <1>6, <1>7, <1>8 DEF IInv

LEMMA WriteIndexFileStep ==
    ASSUME IInv, NEW h \in Handlers, WriteIndexFile(h)
    PROVE  IInv'
<1>0. /\ TypeOK /\ pc[h] = "store" /\ at[h] \in DOMAIN config /\ id(h) \in CatalogIds
      /\ fetched[h] \in Serials
      /\ UNCHANGED <<phase, config, upstream, ask, at, answer, since, crossed>>
  <2>1. TypeOK /\ pc[h] = "store" /\ at[h] \in DOMAIN config /\ fetched[h] \in Serials
    BY DEF WriteIndexFile, IInv, PlacedAt
  <2>2. id(h) \in CatalogIds
    BY <2>1, ConfigType DEF id, catalog
  <2> QED BY <2>1, <2>2 DEF WriteIndexFile, process, history
<1>1. /\ file' = [file EXCEPT ![id(h)] = fetched[h]]
      /\ fetched' = [fetched EXCEPT ![h] = NoIndex]
      /\ pc' = [pc EXCEPT ![h] = "load"]
  BY DEF WriteIndexFile, Goto
<1>2. /\ file' \in [CatalogIds -> {NoIndex} \cup Serials]
      /\ file'[id(h)] = fetched[h]
      /\ \A i \in CatalogIds : i # id(h) => file'[i] = file[i]
  BY <1>0, <1>1 DEF TypeOK
<1>3. /\ fetched' \in [Handlers -> {NoIndex} \cup Serials]
      /\ pc' \in [Handlers -> Busy \cup {"idle", "panicked"}]
      /\ pc'[h] = "load"
      /\ \A g \in Handlers : g # h => pc'[g] = pc[g] /\ fetched'[g] = fetched[g]
  BY <1>0, <1>1 DEF TypeOK, Busy
<1>4. TypeOK'
  BY <1>0, <1>2, <1>3 DEF TypeOK
<1>5. \A g \in Handlers : id(g)' = id(g)
  BY <1>0 DEF id, catalog
<1>6. ASSUME NEW g \in Handlers PROVE PlacedAt(g)'
  <2>1. PlacedAt(g)
    BY DEF IInv
  <2>2. pc'[g] = "load" => file'[id(g)] \in Serials
    <3>1. CASE id(g) = id(h)
      BY <1>0, <1>2, <3>1
    <3>2. CASE id(g) # id(h)
      <4> SUFFICES ASSUME pc'[g] = "load" PROVE file'[id(g)] \in Serials
        OBVIOUS
      <4>1. g # h
        BY <3>2
      <4>2. pc[g] = "load" /\ at[g] \in DOMAIN config /\ file[id(g)] \in Serials
        BY <1>3, <2>1, <4>1 DEF PlacedAt
      <4>3. id(g) \in CatalogIds
        BY <1>0, <4>2, ConfigType DEF id, catalog
      <4> QED BY <1>2, <3>2, <4>2, <4>3
    <3> QED BY <3>1, <3>2
  <2>3. CASE g = h
    BY <1>0, <1>3, <1>5, <2>1, <2>2, <2>3 DEF PlacedAt
  <2>4. CASE g # h
    BY <1>0, <1>3, <1>5, <2>1, <2>2, <2>4 DEF PlacedAt
  <2> QED BY <2>3, <2>4
<1>7. ASSUME NEW g \in Handlers PROVE OnItsWayTo(g)'
  <2>1. OnItsWayTo(g)
    BY DEF IInv
  <2>2. \A i \in CatalogIds : since'[g][i] <= upstream'[i]
    BY <1>0, <2>1 DEF OnItsWayTo
  <2>3. ASSUME pc'[g] = "load" PROVE Recent(g, id(g), file[id(g)])'
    <3>1. CASE id(g) = id(h)
      <4>1. pc[g] # "idle"
        BY <1>0, <1>3, <2>3
      <4>2. Recent(g, id(h), fetched[h])
        BY <1>0, <2>1, <4>1 DEF OnItsWayTo
      <4> QED BY <1>0, <1>2, <1>5, <3>1, <4>2 DEF Recent
    <3>2. CASE id(g) # id(h)
      <4>1. pc[g] = "load"
        BY <1>3, <2>3, <3>2
      <4>2. at[g] \in DOMAIN config
        BY <4>1 DEF IInv, PlacedAt
      <4>3. id(g) \in CatalogIds
        BY <1>0, <4>2, ConfigType DEF id, catalog
      <4>4. Recent(g, id(g), file[id(g)])
        BY <2>1, <4>1 DEF OnItsWayTo
      <4> QED BY <1>0, <1>2, <1>5, <3>2, <4>3, <4>4 DEF Recent
    <3> QED BY <3>1, <3>2
  <2>4. ASSUME NEW w \in Handlers, pc'[g] # "idle", pc'[w] = "store"
        PROVE  Recent(g, id(w), fetched[w])'
    <3>1. w # h /\ pc[w] = "store" /\ pc[g] # "idle"
      BY <1>0, <1>3, <2>4
    <3>2. Recent(g, id(w), fetched[w])
      BY <2>1, <3>1 DEF OnItsWayTo
    <3> QED BY <1>0, <1>3, <1>5, <3>1, <3>2 DEF Recent
  <2> QED BY <2>2, <2>3, <2>4 DEF OnItsWayTo
<1>8. AnswersAreFresh'
  BY <1>0 DEF IInv, AnswersAreFresh, FreshAnswer, Recent
<1>9. NeverPanics' /\ ServesValidConfig'
  BY <1>0, <1>3 DEF IInv, NeverPanics, ServesValidConfig
<1> QED BY <1>4, <1>6, <1>7, <1>8, <1>9 DEF IInv

(* What is on its way when a request begins is recent enough for it, or the*)
(* request has crossed it.                                                 *)
LEMMA AcceptStep ==
    ASSUME IInv, NEW h \in Handlers, NEW r \in Request, NEW status,
           NEW label \in {"next", "find", "idle"}, label = "find" => r.op # "list",
           Accept(h, r, label, status)
    PROVE  IInv'
<1>0. /\ TypeOK /\ phase = "serving" /\ pc[h] = "idle" /\ r \in Request
      /\ UNCHANGED <<phase, config, upstream, file, fetched>>
  BY DEF Accept, IInv, process
<1>1. pc' = [pc EXCEPT ![h] = label] /\ (label = "find" => r.op # "list")
  BY DEF Accept, Goto
<1> DEFINE older == {id(g) : g \in {w \in Handlers : pc[w] = "store" /\ fetched[w] < upstream[id(w)]}}
<1>2. /\ ask' = [ask EXCEPT ![h] = r] /\ at' = [at EXCEPT ![h] = 1]
      /\ answer' = [answer EXCEPT ![h] = Blank(status)]
      /\ since' = [since EXCEPT ![h] = upstream]
      /\ crossed' = [crossed EXCEPT ![h] = older]
  BY DEF Accept
<1>o. older \in SUBSET CatalogIds
  <2>1. ASSUME NEW w \in Handlers, pc[w] = "store" PROVE id(w) \in CatalogIds
    <3>1. at[w] \in DOMAIN config
      BY <2>1 DEF IInv, PlacedAt
    <3> QED BY <1>0, <3>1, ConfigType DEF id, catalog
  <2> QED BY <2>1
<1>3. /\ pc' \in [Handlers -> Busy \cup {"idle", "panicked"}] /\ pc'[h] = label
      /\ ask' \in [Handlers -> Request] /\ ask'[h] = r
      /\ at' \in [Handlers -> Nat \ {0}]
      /\ since' \in [Handlers -> [CatalogIds -> Serials]] /\ since'[h] = upstream
  BY <1>0, <1>1, <1>2 DEF TypeOK, Busy
<1>4. crossed' \in [Handlers -> SUBSET CatalogIds] /\ crossed'[h] = older
  <2> HIDE DEF older
  <2> QED BY <1>0, <1>2, <1>o DEF TypeOK
<1>5. \A g \in Handlers : g # h =>
         /\ pc'[g] = pc[g] /\ ask'[g] = ask[g] /\ at'[g] = at[g]
         /\ since'[g] = since[g] /\ crossed'[g] = crossed[g]
  <2> HIDE DEF older
  <2> QED BY <1>0, <1>1, <1>2 DEF TypeOK
<1>6. /\ AnswerOK /\ answer'[h].entries = <<>>
      /\ \A g \in Handlers : g # h => answer'[g] = answer[g]
  <2>1. <<>> \in Seq(EntryRecord)
    OBVIOUS
  <2>2. AnswerRecord(Blank(status)) /\ Blank(status).entries = <<>>
    BY <2>1, RecordOf, Zenon DEF Blank
  <2> QED BY <1>0, <1>2, <2>2, AnswerType, Zenon
<1>7. TypeOK'
  BY <1>0, <1>3, <1>4, <1>6 DEF TypeOK, AnswerOK
<1>8. \A g \in Handlers : g # h => id(g)' = id(g)
  BY <1>0, <1>5 DEF id, catalog
<1>9. ASSUME NEW g \in Handlers PROVE PlacedAt(g)'
  <2>1. PlacedAt(g)
    BY DEF IInv
  <2>2. CASE g = h
    BY <1>0, <1>1, <1>3, <2>2 DEF PlacedAt
  <2>3. CASE g # h
    BY <1>0, <1>5, <1>8, <2>1, <2>3 DEF PlacedAt
  <2> QED BY <2>2, <2>3
<1>10. ASSUME NEW g \in Handlers PROVE OnItsWayTo(g)'
  <2>1. OnItsWayTo(g)
    BY DEF IInv
  <2>n. upstream \in [CatalogIds -> Nat]
    BY <1>0 DEF TypeOK, Serials
  <2>2. CASE g = h
    <3>1. \A i \in CatalogIds : since'[g][i] <= upstream'[i]
      BY <1>0, <1>3, <2>2, <2>n
    <3>2. pc'[g] # "load"
      BY <1>3, <2>2
    <3>3. ASSUME NEW w \in Handlers, pc'[w] = "store" PROVE Recent(g, id(w), fetched[w])'
      <4>1. w # h /\ pc[w] = "store"
        BY <1>3, <1>5, <3>3
      <4>2. at[w] \in DOMAIN config /\ fetched[w] \in Serials
        BY <4>1 DEF IInv, PlacedAt
      <4>3. id(w) \in CatalogIds /\ fetched[w] \in Nat /\ upstream[id(w)] \in Nat
        BY <1>0, <2>n, <4>2, ConfigType DEF id, catalog, Serials
      <4>4. CASE fetched[w] < upstream[id(w)]
        <5>1. id(w) \in older
          BY <4>1, <4>4
        <5> QED BY <1>4, <1>8, <2>2, <4>1, <5>1 DEF Recent
      <4>5. CASE ~(fetched[w] < upstream[id(w)])
        <5>1. fetched'[w] >= since'[h][id(w)]
          BY <1>0, <1>3, <4>3, <4>5
        <5> QED BY <1>8, <2>2, <4>1, <5>1 DEF Recent
      <4> QED BY <4>4, <4>5
    <3> QED BY <3>1, <3>2, <3>3 DEF OnItsWayTo
  <2>3. CASE g # h
    <3>1. \A i \in CatalogIds : since'[g][i] <= upstream'[i]
      BY <1>0, <1>5, <2>1, <2>3 DEF OnItsWayTo
    <3>2. ASSUME pc'[g] = "load" PROVE Recent(g, id(g), file[id(g)])'
      <4>1. Recent(g, id(g), file[id(g)])
        BY <1>5, <2>1, <2>3, <3>2 DEF OnItsWayTo
      <4> QED BY <1>0, <1>5, <1>8, <2>3, <4>1 DEF Recent
    <3>3. ASSUME NEW w \in Handlers, pc'[g] # "idle", pc'[w] = "store"
          PROVE  Recent(g, id(w), fetched[w])'
      <4>1. w # h /\ pc[w] = "store" /\ pc[g] # "idle"
        BY <1>3, <1>5, <2>3, <3>3
      <4>2. Recent(g, id(w), fetched[w])
        BY <2>1, <4>1 DEF OnItsWayTo
      <4> QED BY <1>0, <1>5, <1>8, <2>3, <4>1, <4>2 DEF Recent
    <3> QED BY <3>1, <3>2, <3>3 DEF OnItsWayTo
  <2> QED BY <2>2, <2>3
<1>11. AnswersAreFresh'
  <2>1. FreshAnswer(h)'
    BY <1>6 DEF FreshAnswer
  <2>2. ASSUME NEW g \in Handlers, g # h PROVE FreshAnswer(g)'
    BY <1>5, <1>6, <2>2 DEF IInv, AnswersAreFresh, FreshAnswer, Recent
  <2> QED BY <2>1, <2>2 DEF AnswersAreFresh
<1>12. NeverPanics' /\ ServesValidConfig'
  BY <1>0, <1>3, <1>5 DEF IInv, NeverPanics, ServesValidConfig
<1> QED BY <1>7, <1>9, <1>10, <1>11, <1>12 DEF IInv

LEMMA BeginStep ==
    ASSUME IInv, NEW h \in Handlers, NEW r \in Requests \cup Calls, Begin(h, r)
    PROVE  IInv'
<1>1. r \in Request
  BY RequestsAssumption
<1>2. PICK label \in {"next", "find"} :
         Accept(h, r, label, 0) /\ (label = "find" => r.op # "list")
  BY DEF Begin
<1> QED BY <1>1, <1>2, AcceptStep

LEMMA HandleOidcStep ==
    ASSUME IInv, NEW h \in Handlers, NEW r \in Requests, HandleOidc(h, r)
    PROVE  IInv'
<1>1. r \in Request
  BY RequestsAssumption
<1>2. CASE Begin(h, r)
  BY <1>2, BeginStep
<1>3. CASE Accept(h, r, "idle", 401)
  <2>1. PICK label \in {"idle"} : Accept(h, r, label, 401)
    BY <1>3
  <2> QED BY <1>1, <2>1, AcceptStep
<1> QED BY <1>2, <1>3 DEF HandleOidc

(* What the repository serves only grows.                                  *)
LEMMA PublishStep ==
    ASSUME IInv, NEW n \in CatalogIds, Publish(n)
    PROVE  IInv'
<1>0. /\ TypeOK
      /\ UNCHANGED <<phase, config, file, pc, ask, at, fetched, answer, since, crossed>>
  BY DEF Publish, IInv, process, history
<1>1. /\ upstream' \in [CatalogIds -> Serials]
      /\ \A i \in CatalogIds : upstream[i] <= upstream'[i]
  <2>1. upstream \in [CatalogIds -> Serials] /\ Len(Entries) \in Nat
    BY <1>0, EntriesAssumption DEF TypeOK
  <2> QED BY <2>1 DEF Publish, Serials
<1>2. TypeOK'
  BY <1>0, <1>1 DEF TypeOK
<1>3. ASSUME NEW g \in Handlers PROVE PlacedAt(g)' /\ OnItsWayTo(g)'
  <2>1. PlacedAt(g) /\ OnItsWayTo(g)
    BY DEF IInv
  <2>2. \A w \in Handlers : id(w)' = id(w)
    BY <1>0 DEF id, catalog
  <2>3. PlacedAt(g)'
    BY <1>0, <2>1, <2>2 DEF PlacedAt
  <2>4. \A i \in CatalogIds : since[g][i] \in Nat /\ upstream[i] \in Nat /\ upstream'[i] \in Nat
    BY <1>0, <1>1 DEF TypeOK, Serials
  <2>5. \A i \in CatalogIds : since'[g][i] <= upstream'[i]
    BY <1>0, <1>1, <2>1, <2>4 DEF OnItsWayTo
  <2>6. \A i, s : Recent(g, i, s)' <=> Recent(g, i, s)
    BY <1>0 DEF Recent
  <2> QED BY <1>0, <2>1, <2>2, <2>3, <2>5, <2>6 DEF OnItsWayTo, Recent
<1>4. AnswersAreFresh' /\ NeverPanics' /\ ServesValidConfig'
  BY <1>0 DEF IInv, AnswersAreFresh, FreshAnswer, Recent, NeverPanics, ServesValidConfig
<1> QED BY <1>2, <1>3, <1>4 DEF IInv

(* Nothing is on its way any more.                                         *)
LEMMA RestartStep ==
    ASSUME IInv, Restart
    PROVE  IInv'
<1>0. /\ TypeOK /\ phase' = "starting"
      /\ pc' = [h \in Handlers |-> "idle"] /\ answer' = [h \in Handlers |-> NoAnswer]
      /\ UNCHANGED <<config, upstream, file, ask, at, fetched, since, crossed>>
  BY DEF Restart, IInv, history
<1>1. AnswerOK /\ \A g \in Handlers : answer'[g].entries = <<>>
  <2>1. NoAnswer = [status |-> NoAnswer.status, entries |-> NoAnswer.entries,
                    versions |-> NoAnswer.versions, blame |-> NoAnswer.blame]
    BY DEF NoAnswer, Blank
  <2>2. NoAnswer.entries = <<>> /\ <<>> \in Seq(EntryRecord)
    BY DEF NoAnswer, Blank
  <2> QED BY <1>0, <2>1, <2>2 DEF AnswerOK
<1>2. TypeOK'
  BY <1>0, <1>1 DEF TypeOK, AnswerOK
<1>3. ASSUME NEW g \in Handlers PROVE PlacedAt(g)' /\ OnItsWayTo(g)'
  BY <1>0 DEF IInv, PlacedAt, OnItsWayTo
<1>4. AnswersAreFresh' /\ NeverPanics' /\ ServesValidConfig'
  BY <1>0, <1>1 DEF AnswersAreFresh, FreshAnswer, NeverPanics, ServesValidConfig
<1> QED BY <1>2, <1>3, <1>4 DEF IInv

LEMMA BootStep ==
    ASSUME IInv, Boot
    PROVE  IInv'
<1>0. /\ TypeOK /\ phase = "starting" /\ phase' \in {"serving", "exited"}
      /\ phase' = "serving" => ValidateCatalogsConfig(config)
      /\ UNCHANGED <<config, upstream, file, pc, ask, at, fetched, answer, since, crossed>>
  BY DEF Boot, IInv, history
<1>1. TypeOK'
  BY <1>0 DEF TypeOK
<1>2. ASSUME NEW g \in Handlers PROVE PlacedAt(g)' /\ OnItsWayTo(g)'
  <2>1. \A w \in Handlers : pc[w] = "idle"
    BY <1>0 DEF IInv, PlacedAt
  <2> QED BY <1>0, <2>1 DEF IInv, PlacedAt, OnItsWayTo
<1>3. AnswersAreFresh' /\ NeverPanics' /\ ServesValidConfig'
  BY <1>0 DEF IInv, AnswersAreFresh, FreshAnswer, Recent, NeverPanics, ServesValidConfig
<1> QED BY <1>1, <1>2, <1>3 DEF IInv

LEMMA StutterStep ==
    ASSUME IInv, UNCHANGED vars
    PROVE  IInv'
<1>0. UNCHANGED <<phase, config, upstream, file, pc, ask, at, fetched, answer, since, crossed>>
  BY DEF vars
<1>1. TypeOK'
  BY <1>0 DEF IInv, TypeOK
<1>2. ASSUME NEW g \in Handlers PROVE PlacedAt(g)' /\ OnItsWayTo(g)'
  BY <1>0 DEF IInv, PlacedAt, OnItsWayTo, Recent, id, catalog
<1>3. AnswersAreFresh' /\ NeverPanics' /\ ServesValidConfig'
  BY <1>0 DEF IInv, AnswersAreFresh, FreshAnswer, Recent, NeverPanics, ServesValidConfig
<1> QED BY <1>1, <1>2, <1>3 DEF IInv

LEMMA InvStep == IInv /\ [Next]_vars => IInv'
<1> SUFFICES ASSUME IInv, [Next]_vars PROVE IInv'
  OBVIOUS
<1>1. CASE \E h \in Handlers : Handle(h)
  BY <1>1, buildCatalogsStep, findCatalogStep, getOCIPackageStep, DownloadIndexFileStep,
     WriteIndexFileStep, LoadIndexFileStep DEF Handle
<1>2. CASE \E h \in Handlers : CallFails(h)
  BY <1>2, CallFailsStep
<1>3. CASE \E h \in Handlers :
              \/ \E r \in Requests : HandleOidc(h, r)
              \/ \E r \in Calls : Begin(h, r)
  BY <1>3, BeginStep, HandleOidcStep
<1>4. CASE \E i \in CatalogIds : Publish(i)
  BY <1>4, PublishStep
<1>5. CASE Boot \/ Restart
  BY <1>5, BootStep, RestartStep
<1>6. CASE UNCHANGED vars
  BY <1>6, StutterStep
<1> QED BY <1>1, <1>2, <1>3, <1>4, <1>5, <1>6 DEF Next

-----------------------------------------------------------------------------

(* Type correctness, and where each request and each index is.             *)
THEOREM Invariance == Spec => []IInv
BY InvInit, InvStep, PTL DEF Spec

(* No answer is older than what the repository served when the request     *)
(* began, but for the indexes the request crossed: however many requests   *)
(* share the index file (loadHelmIndex), and over restarts.                *)
THEOREM FreshAnswers == Spec => []AnswersAreFresh
<1>1. IInv => AnswersAreFresh
  BY DEF IInv
<1> QED BY <1>1, Invariance, PTL

(* No request panics in mustVersionFilter or in the filter it returns,     *)
(* whatever configuration the service was started with.                    *)
THEOREM NoPanic == Spec => []NeverPanics
<1>1. IInv => NeverPanics
  BY DEF IInv
<1> QED BY <1>1, Invariance, PTL

-----------------------------------------------------------------------------
(* Listings.                                                               *)

(* The catalogs a listing has passed that its user may see.                *)
Passed(h) == {i \in Visible(h) : i < at[h]}

(* A listing that is not done has exactly those in its answer, and works at*)
(* one that its user may see.                                              *)
ListedSoFar(h) ==
    /\ Len(answer[h].entries) = Cardinality(Passed(h))
    /\ \A i \in Passed(h) : answer[h].entries[Rank(i, Passed(h))].id = config[i].id

AtVisible(h) ==
    ask[h].op = "list" =>
        /\ pc[h] # "panicked"
        /\ pc[h] \in Busy => answer[h].status = 0 /\ ListedSoFar(h)
        /\ pc[h] \in {"fetch", "store", "load"} => at[h] \in Visible(h)
        /\ answer[h].status = 200 =>
              /\ Len(answer[h].entries) = Cardinality(Visible(h))
              /\ \A i \in Visible(h) :
                    answer[h].entries[Rank(i, Visible(h))].id = config[i].id
        /\ answer[h].status = 500 => answer[h].blame \in Visible(h)

ListingsKeepTo == \A h \in Handlers : AtVisible(h)

LEMMA VisibleType ==
    ASSUME TypeOK, NEW h \in Handlers
    PROVE  /\ Len(config) \in Nat /\ Visible(h) \in SUBSET (1 .. Len(config))
           /\ Passed(h) \in SUBSET (1 .. Len(config))
           /\ DOMAIN config = 1 .. Len(config)
<1>1. config \in Seq(CatalogConfig)
  BY ConfigurationsAssumption DEF TypeOK
<1> QED BY <1>1 DEF Visible, Passed

(* What a handler has and has asked for is its own.                        *)
LEMMA KeepsListing ==
    ASSUME NEW h \in Handlers, AtVisible(h), config' = config,
           pc'[h] = pc[h], ask'[h] = ask[h], at'[h] = at[h], answer'[h] = answer[h]
    PROVE  AtVisible(h)'
BY DEF AtVisible, ListedSoFar, Passed, Visible

LEMMA AnswerParts ==
    ASSUME TypeOK, NEW h \in Handlers, NEW status, Answer(h, status)
    PROVE  /\ answer'[h].status = status /\ answer'[h].entries = answer[h].entries
           /\ status = 500 => answer'[h].blame = at[h]
           /\ pc'[h] = "idle"
<1>1. DOMAIN answer = Handlers /\ DOMAIN pc = Handlers
  BY DEF TypeOK
<1>2. Shaped(answer[h])
  BY ShapeOf DEF Shaped
<1>b. PICK b : b = IF status = 500 THEN at[h] ELSE 0
  OBVIOUS
<1>3. answer' = [answer EXCEPT ![h] = [[answer[h] EXCEPT !.status = status] EXCEPT !.blame = b]]
  BY <1>b DEF Answer
<1>4. [[answer[h] EXCEPT !.status = status] EXCEPT !.blame = b] =
         [status |-> status, entries |-> answer[h].entries,
          versions |-> answer[h].versions, blame |-> b]
  BY <1>2, ReplaceTwo, Zenon
<1>5. answer'[h] = [status |-> status, entries |-> answer[h].entries,
                    versions |-> answer[h].versions, blame |-> b]
  BY <1>1, <1>3, <1>4
<1>6. pc'[h] = "idle"
  BY <1>1 DEF Answer, Goto
<1> QED BY <1>b, <1>5, <1>6

LEMMA AddParts ==
    ASSUME TypeOK, NEW h \in Handlers, NEW e, Add(h, e)
    PROVE  /\ answer'[h].status = answer[h].status
           /\ answer'[h].entries = Append(answer[h].entries, e)
           /\ pc'[h] = "next" /\ at'[h] = at[h] + 1
<1>1. DOMAIN answer = Handlers /\ DOMAIN pc = Handlers /\ DOMAIN at = Handlers
  BY DEF TypeOK
<1>2. answer[h] = [status |-> answer[h].status, entries |-> answer[h].entries,
                   versions |-> answer[h].versions, blame |-> answer[h].blame]
  BY ShapeOf
<1> DEFINE es == Append(answer[h].entries, e)
<1>3. answer'[h] = [answer[h] EXCEPT !.entries = es]
  BY <1>1 DEF Add
<1>4. answer'[h] = [status |-> answer[h].status, entries |-> es,
                    versions |-> answer[h].versions, blame |-> answer[h].blame]
  BY <1>2, <1>3, ReplaceEntries, Zenon
<1>5. pc'[h] = "next" /\ at'[h] = at[h] + 1
  BY <1>1 DEF Add, Goto
<1> HIDE DEF es
<1>6. answer'[h].status = answer[h].status /\ answer'[h].entries = es
  BY <1>4
<1> QED BY <1>5, <1>6 DEF es

(* One more catalog in the answer of a listing.                            *)
LEMMA AddListing ==
    ASSUME IInv, NEW h \in Handlers, AtVisible(h), ask[h].op = "list",
           pc[h] \in Busy, at[h] \in Visible(h),
           NEW names, NEW serial, Add(h, Entry(h, names, serial)), UNCHANGED <<config, ask>>
    PROVE  AtVisible(h)'
<1> DEFINE P == Passed(h)
           e == Entry(h, names, serial)
<1>0. TypeOK /\ answer[h].entries \in Seq(EntryRecord) /\ at[h] \in Nat
  BY DEF IInv, TypeOK
<1>1. /\ answer'[h].status = 0 /\ answer'[h].entries = Append(answer[h].entries, e)
      /\ pc'[h] = "next" /\ at'[h] = at[h] + 1
  BY <1>0, AddParts DEF AtVisible
<1>2. e.id = config[at[h]].id
  BY DEF Entry, id, catalog
<1>3. Visible(h)' = Visible(h) /\ config' = config
  BY DEF Visible
<1>4. Passed(h)' = P \cup {at[h]}
  <2>1. Visible(h) \subseteq Nat
    BY <1>0, VisibleType
  <2>2. {i \in Visible(h) : i < at[h] + 1} = {i \in Visible(h) : i < at[h]} \cup {at[h]}
    BY <1>0, <2>1
  <2> QED BY <1>1, <1>3, <2>2 DEF Passed
<1>5. /\ Len(config) \in Nat /\ P \in SUBSET (1 .. Len(config)) /\ \A j \in P : j < at[h]
  BY <1>0, VisibleType DEF Passed
<1>6. /\ Len(answer[h].entries) = Cardinality(P)
      /\ \A i \in P : answer[h].entries[Rank(i, P)].id = config[i].id
  BY DEF AtVisible, ListedSoFar
<1> HIDE DEF P, e
<1>7. /\ Cardinality(P) \in Nat /\ Cardinality(P \cup {at[h]}) = Cardinality(P) + 1
      /\ Rank(at[h], P \cup {at[h]}) = Cardinality(P) + 1
      /\ \A i \in P : Rank(i, P \cup {at[h]}) = Rank(i, P)
  BY <1>0, <1>5, RankOfLast
<1>8. Len(answer'[h].entries) = Cardinality(P \cup {at[h]})
  BY <1>0, <1>1, <1>6, <1>7
<1>9. ASSUME NEW i \in P \cup {at[h]}
      PROVE  answer'[h].entries[Rank(i, P \cup {at[h]})].id = config[i].id
  <2>1. CASE i \in P
    <3>1. Rank(i, P) \in 1 .. Cardinality(P)
      BY <1>5, <2>1, RankInRange
    <3>2. answer'[h].entries[Rank(i, P)] = answer[h].entries[Rank(i, P)]
      BY <1>0, <1>1, <1>6, <3>1
    <3>3. Rank(i, P \cup {at[h]}) = Rank(i, P)
      BY <1>7, <2>1
    <3> QED BY <1>6, <2>1, <3>2, <3>3
  <2>2. CASE i \notin P
    <3>1. i = at[h] /\ Rank(i, P \cup {at[h]}) = Cardinality(P) + 1
      BY <1>7, <2>2
    <3>2. answer'[h].entries[Cardinality(P) + 1] = e
      BY <1>0, <1>1, <1>6, <1>7
    <3> QED BY <1>2, <3>1, <3>2
  <2> QED BY <2>1, <2>2
<1>10. ListedSoFar(h)'
  BY <1>3, <1>4, <1>8, <1>9 DEF ListedSoFar
<1> QED BY <1>1, <1>10 DEF AtVisible, Busy

(* The end of a listing.                                                   *)
LEMMA EndListing ==
    ASSUME IInv, NEW h \in Handlers, AtVisible(h), ask[h].op = "list", pc[h] \in Busy,
           NEW status \in {200, 500}, Answer(h, status), UNCHANGED <<config, ask, at>>,
           status = 200 => at[h] > Len(config),
           status = 500 => at[h] \in Visible(h)
    PROVE  AtVisible(h)'
<1>0. TypeOK /\ at[h] \in Nat
  BY DEF IInv, TypeOK
<1>1. /\ answer'[h].status = status /\ answer'[h].entries = answer[h].entries
      /\ status = 500 => answer'[h].blame = at[h]
      /\ pc'[h] = "idle"
  BY <1>0, AnswerParts
<1>2. Visible(h)' = Visible(h) /\ config' = config /\ ask' = ask
  BY DEF Visible
<1>3. CASE status = 200
  <2>1. Passed(h) = Visible(h)
    BY <1>0, <1>3, VisibleType DEF Passed
  <2> QED BY <1>1, <1>2, <1>3, <2>1 DEF AtVisible, ListedSoFar, Busy
<1>4. CASE status = 500
  BY <1>1, <1>2, <1>4 DEF AtVisible, Busy
<1> QED BY <1>3, <1>4

(* A step of a listing that leaves its answer alone: to the next catalog   *)
(* if this one is not to be seen, or on with this one.                     *)
LEMMA MoveListing ==
    ASSUME IInv, NEW h \in Handlers, AtVisible(h), ask[h].op = "list", pc[h] \in Busy,
           pc'[h] \in {"next", "fetch", "store", "load"},
           UNCHANGED <<config, ask, answer>>,
           \/ at'[h] = at[h] /\ at[h] \in Visible(h)
           \/ at'[h] = at[h] + 1 /\ at[h] \notin Visible(h) /\ pc'[h] = "next"
    PROVE  AtVisible(h)'
<1>0. TypeOK /\ at[h] \in Nat
  BY DEF IInv, TypeOK
<1>1. Visible(h)' = Visible(h)
  BY DEF Visible
<1>2. Passed(h)' = Passed(h)
  <2>1. Visible(h) \subseteq Nat
    BY <1>0, VisibleType
  <2>2. at[h] \notin Visible(h) =>
           {i \in Visible(h) : i < at[h] + 1} = {i \in Visible(h) : i < at[h]}
    BY <1>0, <2>1
  <2> QED BY <1>1, <2>2 DEF Passed
<1> QED BY <1>1, <1>2 DEF AtVisible, ListedSoFar, Busy

(* A handler that does not list, or has just begun to.                     *)
LEMMA AcceptListing ==
    ASSUME IInv, NEW h \in Handlers, NEW r, NEW label, NEW status,
           Accept(h, r, label, status), ListingsKeepTo, NEW g \in Handlers,
           label \in {"next", "find", "idle"}, status \in {0, 401}, status = 401 => label = "idle"
    PROVE  AtVisible(g)'
<1>0. TypeOK /\ config' = config /\ AtVisible(g)
  BY DEF IInv, Accept, process, ListingsKeepTo
<1>1. CASE g # h
  <2>1. pc'[g] = pc[g] /\ ask'[g] = ask[g] /\ at'[g] = at[g] /\ answer'[g] = answer[g]
    BY <1>0, <1>1 DEF Accept, Goto, TypeOK
  <2> QED BY <1>0, <2>1, KeepsListing
<1>2. CASE g = h
  <2>1. /\ pc'[h] = label /\ at'[h] = 1 /\ answer'[h] = Blank(status)
    <3>1. DOMAIN answer = Handlers /\ DOMAIN pc = Handlers /\ DOMAIN at = Handlers
      BY <1>0 DEF TypeOK
    <3> QED BY <3>1 DEF Accept, Goto
  <2>2. Blank(status).status = status /\ Blank(status).entries = <<>>
    BY DEF Blank
  <2>3. Visible(h)' \subseteq 1 .. Len(config)
    BY <1>0, VisibleType DEF Visible
  <2>4. Len(config) \in Nat
    BY <1>0, VisibleType
  <2>5. Passed(h)' = {}
    BY <2>1, <2>3, <2>4 DEF Passed
  <2>6. Cardinality(Passed(h)') = 0
    BY <2>5, FS_EmptySet
  <2>7. pc'[h] \in Busy => answer'[h].status = 0 /\ ListedSoFar(h)'
    BY <2>1, <2>2, <2>5, <2>6 DEF ListedSoFar, Busy
  <2> QED BY <1>2, <2>1, <2>2, <2>7 DEF AtVisible
<1> QED BY <1>1, <1>2

(* The steps of a handler.                                                 *)
LEMMA HandleListing ==
    ASSUME IInv, NEW h \in Handlers, Handle(h) \/ CallFails(h), AtVisible(h),
           ask[h].op = "list"
    PROVE  AtVisible(h)'
<1>0. TypeOK /\ ask' = ask /\ config' = config /\ at[h] \in Nat
  BY DEF IInv, TypeOK, Handle, CallFails, buildCatalogs, findCatalog, getOCIPackage,
         DownloadIndexFile, WriteIndexFile, LoadIndexFile, process
<1>1. CASE buildCatalogs(h)
  <2>0. pc[h] = "next" /\ pc[h] \in Busy
    BY <1>1 DEF buildCatalogs, Busy
  <2>d. at[h] <= Len(config) =>
           /\ Included(catalog(h), ask[h].user) <=> at[h] \in Visible(h)
           /\ at[h] \in DOMAIN config
    <3>1. at[h] \in Nat \ {0} /\ DOMAIN config = 1 .. Len(config) /\ Len(config) \in Nat
      BY <1>0, VisibleType DEF TypeOK
    <3> QED BY <3>1 DEF Visible, catalog
  <2>1. CASE at[h] > Len(config) /\ Answer(h, 200) /\ UNCHANGED at
    BY <1>0, <2>0, <2>1, EndListing
  <2>2. CASE /\ at[h] <= Len(config) /\ ~Included(catalog(h), ask[h].user)
             /\ at' = [at EXCEPT ![h] = @ + 1] /\ UNCHANGED <<pc, answer>>
    <3>1. at'[h] = at[h] + 1 /\ at[h] \notin Visible(h)
      BY <1>0, <2>2, <2>d DEF TypeOK
    <3> QED BY <1>0, <2>0, <2>2, <3>1, MoveListing
  <2>3. CASE /\ at[h] <= Len(config) /\ Included(catalog(h), ask[h].user)
             /\ Add(h, Entry(h, listOCIPackages(catalog(h)), NoIndex))
    BY <1>0, <2>0, <2>3, <2>d, AddListing
  <2>4. CASE /\ at[h] <= Len(config) /\ Included(catalog(h), ask[h].user)
             /\ Goto(h, "fetch") /\ UNCHANGED <<at, answer>>
    <3>1. pc'[h] = "fetch" /\ at'[h] = at[h] /\ at[h] \in Visible(h)
      BY <1>0, <2>4, <2>d DEF Goto, TypeOK
    <3> QED BY <1>0, <2>0, <2>4, <3>1, MoveListing
  <2> QED BY <1>1, <2>1, <2>2, <2>3, <2>4 DEF buildCatalogs
<1>2. CASE findCatalog(h) \/ getOCIPackage(h)
  BY <1>2 DEF findCatalog, getOCIPackage, IInv, PlacedAt
<1>3. CASE DownloadIndexFile(h) \/ WriteIndexFile(h)
  <2>1. /\ pc[h] \in {"fetch", "store"} /\ pc'[h] \in {"store", "load"}
        /\ UNCHANGED <<at, answer>>
    BY <1>0, <1>3 DEF DownloadIndexFile, WriteIndexFile, Goto, TypeOK
  <2>2. at[h] \in Visible(h) /\ pc[h] \in Busy
    BY <2>1 DEF AtVisible, Busy
  <2> QED BY <1>0, <2>1, <2>2, MoveListing
<1>4. CASE LoadIndexFile(h)
  <2>1. pc[h] = "load" /\ at[h] \in Visible(h) /\ pc[h] \in Busy
    BY <1>4 DEF LoadIndexFile, AtVisible, Busy
  <2>2. PICK names, serial : Add(h, Entry(h, names, serial))
    BY <1>4 DEF LoadIndexFile
  <2> QED BY <1>0, <2>1, <2>2, AddListing
<1>5. CASE CallFails(h)
  <2>1. at[h] \in Visible(h) /\ pc[h] \in Busy /\ Answer(h, 500) /\ at' = at
    BY <1>5 DEF CallFails, AtVisible, Busy
  <2> QED BY <1>0, <2>1, EndListing
<1> QED BY <1>1, <1>2, <1>3, <1>4, <1>5 DEF Handle

(* A step of one handler leaves the others' requests alone.                *)
LEMMA OthersKeep ==
    ASSUME TypeOK, NEW h \in Handlers, Handle(h) \/ CallFails(h), NEW g \in Handlers, g # h
    PROVE  /\ pc'[g] = pc[g] /\ at'[g] = at[g] /\ answer'[g] = answer[g]
           /\ UNCHANGED <<config, ask, since, crossed>>
<1>0. UNCHANGED <<config, ask, since, crossed>>
  BY DEF Handle, CallFails, buildCatalogs, findCatalog, getOCIPackage,
         DownloadIndexFile, WriteIndexFile, LoadIndexFile, process, history
<1>t. DOMAIN answer = Handlers /\ DOMAIN pc = Handlers /\ DOMAIN at = Handlers
  BY DEF TypeOK
<1>1. ASSUME NEW status, Answer(h, status)
      PROVE  pc'[g] = pc[g] /\ answer'[g] = answer[g]
  BY <1>1, <1>t DEF Answer, Goto
<1>2. ASSUME NEW e, Add(h, e)
      PROVE  pc'[g] = pc[g] /\ answer'[g] = answer[g] /\ at'[g] = at[g]
  BY <1>2, <1>t DEF Add, Goto
<1>3. ASSUME NEW names, NEW serial, NEW versions, NEW status,
             Show(h, names, serial, versions, status)
      PROVE  pc'[g] = pc[g] /\ answer'[g] = answer[g]
  BY <1>3, <1>t DEF Show, Goto
<1>4. ASSUME NEW label, Goto(h, label) PROVE pc'[g] = pc[g]
  BY <1>4, <1>t DEF Goto
<1>5. CASE buildCatalogs(h) \/ findCatalog(h)
  <2>1. at'[g] = at[g]
    BY <1>5, <1>2, <1>t DEF buildCatalogs, findCatalog
  <2>2. pc'[g] = pc[g] /\ answer'[g] = answer[g]
    BY <1>5, <1>1, <1>2, <1>4 DEF buildCatalogs, findCatalog
  <2> QED BY <1>0, <2>1, <2>2
<1>6. CASE getOCIPackage(h) \/ CallFails(h)
  <2>1. at' = at /\ pc'[g] = pc[g] /\ answer'[g] = answer[g]
    BY <1>6, <1>1, <1>3 DEF getOCIPackage, CallFails
  <2> QED BY <1>0, <2>1
<1>7. CASE DownloadIndexFile(h) \/ WriteIndexFile(h)
  <2>1. UNCHANGED <<at, answer>> /\ pc'[g] = pc[g]
    BY <1>7, <1>4 DEF DownloadIndexFile, WriteIndexFile
  <2> QED BY <1>0, <2>1
<1>8. CASE LoadIndexFile(h)
  <2>1. ASSUME NEW serial, NEW index, getHelmPackage(h, serial, index)
        PROVE  pc'[g] = pc[g] /\ answer'[g] = answer[g]
    <3>1. \/ Answer(h, 404)
          \/ Goto(h, "panicked") /\ UNCHANGED answer
          \/ \E names, versions : Show(h, names, serial, versions, 200)
      BY <2>1, Zenon DEF getHelmPackage
    <3> QED BY <3>1, <1>1, <1>3, <1>4
  <2>2. pc'[g] = pc[g] /\ answer'[g] = answer[g] /\ at'[g] = at[g]
    BY <1>8, <1>1, <1>2, <1>3, <2>1 DEF LoadIndexFile
  <2> QED BY <1>0, <2>2
<1> QED BY <1>5, <1>6, <1>7, <1>8 DEF Handle

LEMMA HandleOther ==
    ASSUME IInv, NEW h \in Handlers, Handle(h) \/ CallFails(h),
           NEW g \in Handlers, AtVisible(g), g # h \/ ask[h].op # "list"
    PROVE  AtVisible(g)'
<1>0. TypeOK /\ ask' = ask /\ config' = config
  BY DEF IInv, Handle, CallFails, buildCatalogs, findCatalog, getOCIPackage,
         DownloadIndexFile, WriteIndexFile, LoadIndexFile, process
<1>1. CASE g = h
  BY <1>0, <1>1 DEF AtVisible
<1>2. CASE g # h
  <2>1. pc'[g] = pc[g] /\ at'[g] = at[g] /\ answer'[g] = answer[g]
    BY <1>0, <1>2, OthersKeep
  <2> QED BY <1>0, <2>1, KeepsListing
<1> QED BY <1>1, <1>2

LEMMA ListingStep == IInv /\ ListingsKeepTo /\ [Next]_vars => ListingsKeepTo'
<1> SUFFICES ASSUME IInv, ListingsKeepTo, [Next]_vars, NEW g \in Handlers
             PROVE  AtVisible(g)'
  BY DEF ListingsKeepTo
<1>0. AtVisible(g)
  BY DEF ListingsKeepTo
<1>1. ASSUME NEW h \in Handlers, Handle(h) \/ CallFails(h) PROVE AtVisible(g)'
  <2>1. CASE g = h /\ ask[h].op = "list"
    BY <1>0, <1>1, <2>1, HandleListing
  <2>2. CASE g # h \/ ask[h].op # "list"
    BY <1>0, <1>1, <2>2, HandleOther
  <2> QED BY <2>1, <2>2
<1>2. ASSUME NEW h \in Handlers, NEW r, Begin(h, r) \/ HandleOidc(h, r)
      PROVE  AtVisible(g)'
  BY <1>2, AcceptListing DEF Begin, HandleOidc
<1>3. CASE Boot \/ (\E i \in CatalogIds : Publish(i))
  BY <1>0, <1>3, KeepsListing DEF Boot, Publish, process
<1>4. CASE Restart
  <2>1. /\ pc'[g] = "idle" /\ answer'[g] = NoAnswer
        /\ NoAnswer.status = 0
    BY <1>4 DEF Restart, NoAnswer, Blank
  <2> QED BY <2>1 DEF AtVisible, Busy
<1>5. CASE UNCHANGED vars
  BY <1>0, <1>5, KeepsListing DEF vars
<1> QED BY <1>1, <1>2, <1>3, <1>4, <1>5 DEF Next

(* A listing has exactly the catalogs its user may see, each once and in   *)
(* the order of the configuration, or it failed at one of these: whatever  *)
(* the configuration, the repositories and the requests beside it do       *)
(* (buildCatalogs).                                                        *)
THEOREM ListingsAreRestricted == Spec => []ListingRespectsRestrictions
<1>1. Init => ListingsKeepTo
  <2> SUFFICES ASSUME Init, NEW h \in Handlers PROVE AtVisible(h)
    BY DEF ListingsKeepTo
  <2>1. pc[h] = "idle" /\ answer[h].status = 0
    BY DEF Init, NoAnswer, Blank
  <2> QED BY <2>1 DEF AtVisible, Busy
<1>2. ListingsKeepTo => ListingRespectsRestrictions
  BY DEF ListingsKeepTo, AtVisible, ListingRespectsRestrictions
<1> QED BY Invariance, ListingStep, <1>1, <1>2, PTL DEF Spec

-----------------------------------------------------------------------------
(* Packages shown and resolved.                                            *)

(* What was shown is the configured list, or what the mode makes of the    *)
(* index that the answer names.                                            *)
Shows(h) ==
    LET c == catalog(h)
        e == answer[h].entries[1]
        p == ociPackage(c, ask[h].name)
    IN  /\ at[h] \in DOMAIN config /\ c.id = ask[h].id /\ e.id = ask[h].id
        /\ \/ /\ e.serial = NoIndex /\ c.type = "oci" /\ p # 0
              /\ answer[h].versions = c.packages[p].versions
           \/ /\ e.serial \in Serials /\ c.type # "oci"
              /\ answer[h].versions =
                    apply(c, extractVersions(Entries[e.serial][ask[h].id][ask[h].name]))

(* Why a request without a fault did not resolve: no catalog, or one that  *)
(* lacks the version, in an index as recent as the request.                *)
Lacks(h) ==
    \/ \A i \in DOMAIN config : config[i].id # ask[h].id
    \/ \E i \in DOMAIN config :
          /\ config[i].id = ask[h].id
          /\ \/ /\ config[i].type = "oci"
                /\ ~resolveOCIPackage(config[i], ask[h].name, ask[h].version)
             \/ /\ config[i].type # "oci"
                /\ \E s \in Serials :
                      /\ s <= upstream[ask[h].id] /\ Recent(h, ask[h].id, s)
                      /\ ~resolveHelmPackage(Entries[s][ask[h].id], ask[h].name, ask[h].version)

Accounted(h) ==
    /\ answer[h].status # 0 => ValidateCatalogsConfig(config)
    /\ ask[h].op # "list" =>
          /\ pc[h] # "next"
          /\ pc[h] \in Busy => answer[h].status = 0
          /\ pc[h] \in {"oci", "fetch", "store", "load"} =>
                catalog(h).id = ask[h].id /\ (pc[h] = "oci" <=> catalog(h).type = "oci")
          /\ ask[h].op = "package" /\ answer[h].status = 200 => Shows(h)
          /\ ask[h].op = "resolve" /\ answer[h].status = 500 /\ budget.faults = MaxFaults =>
                Lacks(h)

(* Nobody has an index that was not published yet.                         *)
IndexesPublished ==
    /\ \A i \in CatalogIds : file[i] <= upstream[i]
    /\ \A h \in Handlers : pc[h] = "store" => fetched[h] <= upstream[id(h)]

BudgetOK ==
    /\ budget \in [{"requests", "faults", "crashes"} -> Nat]
    /\ budget.faults <= MaxFaults

AnswersAccounted == BudgetOK /\ IndexesPublished /\ \A h \in Handlers : Accounted(h)

LEMMA KeepsAccount ==
    ASSUME TypeOK, NEW h \in Handlers, Accounted(h), config' = config,
           pc'[h] = pc[h], ask'[h] = ask[h], at'[h] = at[h], answer'[h] = answer[h],
           since'[h] = since[h], crossed'[h] = crossed[h],
           \A i \in CatalogIds : upstream'[i] \in Nat /\ upstream[i] <= upstream'[i],
           budget'.faults = MaxFaults => budget.faults = MaxFaults
    PROVE  Accounted(h)'
<1>1. catalog(h)' = catalog(h) /\ (Shows(h) => Shows(h)')
  BY DEF catalog, Shows
<1>2. ASSUME ask[h].op = "resolve", Lacks(h) PROVE Lacks(h)'
  <2>1. ask[h].id \in CatalogIds
    BY <1>2 DEF TypeOK, Request
  <2>2. \A s \in Serials : s \in Nat
    BY EntriesAssumption DEF Serials
  <2>3. upstream[ask[h].id] \in Nat
    BY <2>1, <2>2 DEF TypeOK
  <2>4. \A s \in Serials : s <= upstream[ask[h].id] => s <= upstream'[ask[h].id]
    BY <2>1, <2>2, <2>3
  <2>5. \A i, s : Recent(h, i, s) => Recent(h, i, s)'
    BY DEF Recent
  <2> QED BY <1>2, <2>4, <2>5 DEF Lacks
<1> QED BY <1>1, <1>2 DEF Accounted

LEMMA ShowParts ==
    ASSUME TypeOK, NEW h \in Handlers, NEW names, NEW serial, NEW versions,
           Show(h, names, serial, versions, 200)
    PROVE  /\ answer'[h].status = 200 /\ answer'[h].versions = versions
           /\ answer'[h].entries[1].id = id(h) /\ answer'[h].entries[1].serial = serial
           /\ pc'[h] = "idle"
<1>1. DOMAIN answer = Handlers /\ DOMAIN pc = Handlers
  BY DEF TypeOK
<1>2. answer'[h] = [status |-> 200, versions |-> versions, blame |-> 0,
                    entries |-> <<Entry(h, names, serial)>>]
  BY <1>1 DEF Show
<1>3. Entry(h, names, serial).id = id(h) /\ Entry(h, names, serial).serial = serial
  BY DEF Entry
<1>4. pc'[h] = "idle"
  BY <1>1 DEF Show, Goto
<1> QED BY <1>2, <1>3, <1>4

(* What one request does to its own account.                               *)
LEMMA AnswerAccount ==
    ASSUME IInv, NEW h \in Handlers, pc[h] # "idle", NEW status, Answer(h, status),
           UNCHANGED <<config, ask>>,
           status # 200,
           ask[h].op = "resolve" /\ status = 500 /\ budget'.faults = MaxFaults => Lacks(h)'
    PROVE  Accounted(h)'
<1>1. answer'[h].status = status /\ pc'[h] = "idle"
  BY AnswerParts DEF IInv
<1>2. ValidateCatalogsConfig(config)
  BY DEF IInv, PlacedAt, ServesValidConfig
<1> QED BY <1>1, <1>2 DEF Accounted, Busy

LEMMA ListAccount ==
    ASSUME IInv, NEW h \in Handlers, pc[h] # "idle", ask[h].op = "list", UNCHANGED <<config, ask>>
    PROVE  Accounted(h)'
<1>1. ValidateCatalogsConfig(config)
  BY DEF IInv, PlacedAt, ServesValidConfig
<1> QED BY <1>1 DEF Accounted

LEMMA findCatalogAccount ==
    ASSUME IInv, NEW h \in Handlers, Accounted(h), findCatalog(h)
    PROVE  Accounted(h)'
<1>0. /\ TypeOK /\ pc[h] = "find" /\ pc[h] # "idle" /\ ask[h].op # "list"
      /\ UNCHANGED <<config, ask, upstream, since, crossed, budget>>
  BY DEF IInv, PlacedAt, findCatalog, process, history
<1>1. CASE /\ \A i \in DOMAIN config : config[i].id # ask[h].id
           /\ Answer(h, IF ask[h].op = "package" THEN 404 ELSE 500)
  <2>1. Lacks(h)'
    BY <1>0, <1>1 DEF Lacks
  <2> QED BY <1>0, <1>1, <2>1, AnswerAccount
<1>2. ASSUME NEW i \in DOMAIN config, config[i].id = ask[h].id, at' = [at EXCEPT ![h] = i],
             Goto(h, IF config[i].type = "oci" THEN "oci" ELSE "fetch"), UNCHANGED answer
      PROVE  Accounted(h)'
  <2>1. at'[h] = i /\ pc'[h] = IF config[i].type = "oci" THEN "oci" ELSE "fetch"
    BY <1>0, <1>2 DEF TypeOK, Goto
  <2>2. answer[h].status = 0
    BY <1>0 DEF Accounted, Busy
  <2> QED BY <1>0, <1>2, <2>1, <2>2 DEF Accounted, catalog
<1> QED BY <1>1, <1>2 DEF findCatalog

LEMMA getOCIPackageAccount ==
    ASSUME IInv, NEW h \in Handlers, Accounted(h), getOCIPackage(h)
    PROVE  Accounted(h)'
<1>0. /\ TypeOK /\ pc[h] = "oci" /\ pc[h] # "idle" /\ ask[h].op # "list" /\ at[h] \in DOMAIN config
      /\ UNCHANGED <<config, ask, at, upstream, since, crossed, budget>>
      /\ ValidateCatalogsConfig(config)
  BY DEF IInv, PlacedAt, ServesValidConfig, getOCIPackage, process, history
<1>1. catalog(h).id = ask[h].id /\ catalog(h).type = "oci" /\ catalog(h)' = catalog(h)
  BY <1>0 DEF Accounted, catalog
<1> DEFINE p == ociPackage(catalog(h), ask[h].name)
<1>2. CASE ask[h].op = "package" /\ p = 0
  <2>1. Answer(h, 500)
    BY <1>2 DEF getOCIPackage
  <2> QED BY <1>0, <1>2, <2>1, AnswerAccount
<1>3. CASE ask[h].op = "package" /\ p # 0
  <2>1. Show(h, {ask[h].name}, NoIndex, catalog(h).packages[p].versions, 200)
    BY <1>3 DEF getOCIPackage
  <2>2. /\ answer'[h].status = 200 /\ answer'[h].versions = catalog(h).packages[p].versions
        /\ answer'[h].entries[1].id = id(h) /\ answer'[h].entries[1].serial = NoIndex
        /\ pc'[h] = "idle"
    <3> HIDE DEF p
    <3> QED BY <1>0, <2>1, ShowParts
  <2>3. Shows(h)'
    BY <1>0, <1>1, <1>3, <2>2 DEF Shows, id
  <2> QED BY <1>0, <1>3, <2>2, <2>3 DEF Accounted, Busy
<1>4. CASE ask[h].op # "package" /\ resolveOCIPackage(catalog(h), ask[h].name, ask[h].version)
  <2>1. Show(h, {ask[h].name}, NoIndex, <<ask[h].version>>, 200)
    BY <1>4 DEF getOCIPackage
  <2>2. answer'[h].status = 200 /\ pc'[h] = "idle"
    BY <1>0, <2>1, ShowParts
  <2> QED BY <1>0, <1>4, <2>2 DEF Accounted, Busy
<1>5. CASE ask[h].op # "package" /\ ~resolveOCIPackage(catalog(h), ask[h].name, ask[h].version)
  <2>1. Answer(h, 500)
    BY <1>5 DEF getOCIPackage
  <2>2. Lacks(h)'
    BY <1>0, <1>1, <1>5 DEF Lacks, catalog
  <2> QED BY <1>0, <2>1, <2>2, AnswerAccount
<1> QED BY <1>2, <1>3, <1>4, <1>5

LEMMA LoadIndexFileAccount ==
    ASSUME IInv, IndexesPublished, NEW h \in Handlers, Accounted(h), LoadIndexFile(h),
           ask[h].op # "list"
    PROVE  Accounted(h)'
<1>0. /\ TypeOK /\ pc[h] = "load" /\ pc[h] # "idle" /\ at[h] \in DOMAIN config
      /\ file[id(h)] \in Serials /\ ValidateCatalogsConfig(config)
      /\ UNCHANGED <<config, ask, at, upstream, since, crossed, budget>>
  BY DEF IInv, PlacedAt, ServesValidConfig, LoadIndexFile, process, history
<1>1. /\ catalog(h).id = ask[h].id /\ id(h) = ask[h].id /\ catalog(h).type # "oci"
      /\ catalog(h)' = catalog(h)
  BY <1>0 DEF Accounted, catalog, id
<1>2. file[ask[h].id] <= upstream[ask[h].id] /\ Recent(h, ask[h].id, file[ask[h].id])
  <2>1. id(h) \in CatalogIds
    BY <1>0, ConfigType DEF id, catalog
  <2> QED BY <1>0, <1>1, <2>1 DEF IndexesPublished, IInv, OnItsWayTo
<1>s. PICK s \in Serials : s = file[ask[h].id]
  BY <1>0, <1>1
<1> DEFINE index == Entries[s][ask[h].id]
<1>3. s # NoIndex
  BY EntriesAssumption DEF Serials, NoIndex
<1>4. CASE ask[h].op = "package" /\ getHelmPackage(h, s, index)
  <2> DEFINE versions == extractVersions(index[ask[h].name])
  <2>1. CASE index[ask[h].name] = <<>>
    <3>1. Answer(h, 404)
      BY <1>4, <2>1, Zenon DEF getHelmPackage
    <3> QED BY <1>0, <1>4, <3>1, AnswerAccount
  <2>2. CASE index[ask[h].name] # <<>> /\ FilterPanics(catalog(h), versions)
    <3>1. UNCHANGED answer /\ Goto(h, "panicked")
      BY <1>4, <2>2, Zenon DEF getHelmPackage
    <3>2. answer[h].status = 0 /\ pc'[h] = "panicked"
      BY <1>0, <1>4, <3>1 DEF Accounted, Busy, Goto, TypeOK
    <3> QED BY <1>0, <1>4, <3>1, <3>2 DEF Accounted, Busy
  <2>3. CASE index[ask[h].name] # <<>> /\ ~FilterPanics(catalog(h), versions)
    <3>1. Show(h, {ask[h].name}, s, apply(catalog(h), versions), 200)
      BY <1>4, <2>3, Zenon DEF getHelmPackage
    <3>2. /\ answer'[h].status = 200 /\ answer'[h].versions = apply(catalog(h), versions)
          /\ answer'[h].entries[1].id = id(h) /\ answer'[h].entries[1].serial = s
          /\ pc'[h] = "idle"
      <4> HIDE DEF versions
      <4> QED BY <1>0, <3>1, ShowParts
    <3>3. Shows(h)'
      BY <1>0, <1>1, <1>3, <3>2 DEF Shows
    <3> QED BY <1>0, <1>4, <3>2, <3>3 DEF Accounted, Busy
  <2> QED BY <2>1, <2>2, <2>3
<1>5. CASE /\ ask[h].op = "resolve" /\ resolveHelmPackage(index, ask[h].name, ask[h].version)
           /\ Show(h, {ask[h].name}, s, <<ask[h].version>>, 200)
  <2>1. answer'[h].status = 200 /\ pc'[h] = "idle"
    BY <1>0, <1>5, ShowParts
  <2> QED BY <1>0, <1>5, <2>1 DEF Accounted, Busy
<1>6. CASE /\ ask[h].op = "resolve" /\ ~resolveHelmPackage(index, ask[h].name, ask[h].version)
           /\ Answer(h, 500)
  <2>1. Lacks(h)'
    <3>1. Recent(h, ask[h].id, s)'
      BY <1>0, <1>2, <1>s DEF Recent
    <3>2. at[h] \in DOMAIN config' /\ config'[at[h]].id = ask'[h].id /\ config'[at[h]].type # "oci"
      BY <1>0, <1>1 DEF catalog
    <3>3. /\ s <= upstream'[ask'[h].id] /\ Recent(h, ask[h].id, s)'
          /\ ~resolveHelmPackage(Entries[s][ask'[h].id], ask'[h].name, ask'[h].version)
      BY <1>0, <1>2, <1>s, <1>6, <3>1
    <3> QED BY <3>2, <3>3 DEF Lacks
  <2> QED BY <1>0, <1>6, <2>1, AnswerAccount
<1>7. \/ ask[h].op = "package" /\ getHelmPackage(h, s, index)
      \/ /\ ask[h].op = "resolve"
         /\ IF resolveHelmPackage(index, ask[h].name, ask[h].version)
            THEN Show(h, {ask[h].name}, s, <<ask[h].version>>, 200)
            ELSE Answer(h, 500)
  <2>1. ask[h].op # "list" /\ id(h) = ask[h].id
    BY <1>1
  <2> QED BY <1>s, <2>1, Zenon DEF LoadIndexFile
<1> QED BY <1>4, <1>5, <1>6, <1>7

LEMMA HandleAccount ==
    ASSUME IInv, IndexesPublished, BudgetOK, NEW h \in Handlers, Accounted(h),
           Handle(h) \/ CallFails(h)
    PROVE  Accounted(h)'
<1>0. /\ TypeOK /\ pc[h] # "idle" /\ UNCHANGED <<config, ask>>
  BY DEF IInv, Handle, CallFails, buildCatalogs, findCatalog, getOCIPackage,
         DownloadIndexFile, WriteIndexFile, LoadIndexFile, process
<1>1. CASE ask[h].op = "list"
  BY <1>0, <1>1, ListAccount
<1>2. CASE ask[h].op # "list"
  <2>1. CASE buildCatalogs(h)
    BY <1>2, <2>1 DEF buildCatalogs, Accounted
  <2>2. CASE findCatalog(h)
    BY <2>2, findCatalogAccount
  <2>3. CASE getOCIPackage(h)
    BY <2>3, getOCIPackageAccount
  <2>4. CASE DownloadIndexFile(h) \/ WriteIndexFile(h)
    <3>1. /\ pc[h] \in {"fetch", "store"} /\ pc'[h] \in {"store", "load"}
          /\ UNCHANGED <<at, answer>>
      BY <1>0, <2>4 DEF DownloadIndexFile, WriteIndexFile, Goto, TypeOK
    <3>2. answer[h].status = 0 /\ catalog(h)' = catalog(h)
      BY <1>0, <1>2, <3>1 DEF Accounted, Busy, catalog
    <3> QED BY <1>0, <1>2, <3>1, <3>2 DEF Accounted
  <2>5. CASE LoadIndexFile(h)
    BY <1>2, <2>5, LoadIndexFileAccount
  <2>6. CASE CallFails(h)
    <3>1. budget'.faults # MaxFaults
      BY <2>6, BoundsAssumption DEF CallFails, Spend, BudgetOK
    <3> QED BY <1>0, <2>6, <3>1, AnswerAccount DEF CallFails
  <2> QED BY <2>1, <2>2, <2>3, <2>4, <2>5, <2>6 DEF Handle
<1> QED BY <1>1, <1>2

LEMMA AcceptAccount ==
    ASSUME IInv, NEW h \in Handlers, NEW r, NEW label, NEW status, Accept(h, r, label, status),
           label \in {"next", "find", "idle"}, status \in {0, 401}, status = 401 => label = "idle",
           r.op # "list" => label = "find"
    PROVE  /\ Accounted(h)'
           /\ \A g \in Handlers : g # h =>
                 /\ pc'[g] = pc[g] /\ ask'[g] = ask[g] /\ at'[g] = at[g] /\ answer'[g] = answer[g]
                 /\ since'[g] = since[g] /\ crossed'[g] = crossed[g]
<1>1. /\ DOMAIN answer = Handlers /\ DOMAIN pc = Handlers /\ DOMAIN ask = Handlers
      /\ DOMAIN at = Handlers /\ DOMAIN since = Handlers /\ DOMAIN crossed = Handlers
  BY DEF IInv, TypeOK
<1>2. ASSUME NEW g \in Handlers, g # h
      PROVE  /\ pc'[g] = pc[g] /\ ask'[g] = ask[g] /\ at'[g] = at[g] /\ answer'[g] = answer[g]
             /\ since'[g] = since[g] /\ crossed'[g] = crossed[g]
  BY <1>1, <1>2 DEF Accept, Goto
<1>3. pc'[h] = label /\ ask'[h] = r /\ answer'[h].status = status
  BY <1>1 DEF Accept, Goto, Blank
<1>4. ValidateCatalogsConfig(config) /\ config' = config
  BY DEF IInv, ServesValidConfig, Accept, process
<1> QED BY <1>2, <1>3, <1>4 DEF Accounted, Busy

LEMMA IndexesPublishedStep ==
    IInv /\ IndexesPublished /\ [Next]_vars => IndexesPublished'
<1> SUFFICES ASSUME IInv, IndexesPublished, [Next]_vars PROVE IndexesPublished'
  OBVIOUS
<1>0. TypeOK /\ \A s \in Serials : s \in Nat
  BY EntriesAssumption DEF IInv, Serials
<1>u. \A i \in CatalogIds : upstream[i] \in Nat
  BY <1>0 DEF TypeOK
<1>1. ASSUME NEW h \in Handlers, Handle(h) \/ CallFails(h),
             UNCHANGED <<upstream, file, fetched>>, pc'[h] # "store"
      PROVE  IndexesPublished'
  <2>1. \A g \in Handlers : pc'[g] = "store" => pc[g] = "store" /\ id(g)' = id(g)
    BY <1>0, <1>1, OthersKeep DEF id, catalog
  <2> QED BY <1>1, <2>1 DEF IndexesPublished
<1>2. ASSUME NEW h \in Handlers, DownloadIndexFile(h) PROVE IndexesPublished'
  <2>1. /\ UNCHANGED <<upstream, file, at, config>> /\ pc[h] = "fetch"
        /\ fetched'[h] = upstream[id(h)]
        /\ \A g \in Handlers : g # h => pc'[g] = pc[g] /\ fetched'[g] = fetched[g]
    BY <1>0, <1>2 DEF DownloadIndexFile, Goto, TypeOK, process
  <2>2. upstream[id(h)] \in Nat
    <3>1. at[h] \in DOMAIN config
      BY <2>1 DEF IInv, PlacedAt
    <3>2. id(h) \in CatalogIds
      BY <1>0, <3>1, ConfigType DEF id, catalog
    <3> QED BY <1>u, <3>2
  <2>3. \A g \in Handlers : id(g)' = id(g)
    BY <2>1 DEF id, catalog
  <2> QED BY <2>1, <2>2, <2>3 DEF IndexesPublished
<1>3. ASSUME NEW h \in Handlers, WriteIndexFile(h) PROVE IndexesPublished'
  <2>1. /\ UNCHANGED <<upstream, at, config>> /\ pc[h] = "store" /\ pc'[h] = "load"
        /\ file'[id(h)] = fetched[h] \/ id(h) \notin CatalogIds
        /\ \A i \in CatalogIds : i # id(h) => file'[i] = file[i]
        /\ \A g \in Handlers : g # h => pc'[g] = pc[g] /\ fetched'[g] = fetched[g]
    BY <1>0, <1>3 DEF WriteIndexFile, Goto, TypeOK, process
  <2>2. \A g \in Handlers : id(g)' = id(g)
    BY <2>1 DEF id, catalog
  <2> QED BY <2>1, <2>2 DEF IndexesPublished
<1>4. ASSUME NEW h \in Handlers, Handle(h) \/ CallFails(h) PROVE IndexesPublished'
  <2>1. CASE buildCatalogs(h) \/ findCatalog(h) \/ getOCIPackage(h) \/ LoadIndexFile(h)
              \/ CallFails(h)
    <3>1. UNCHANGED <<upstream, file, fetched>>
      BY <2>1 DEF buildCatalogs, findCatalog, getOCIPackage, LoadIndexFile, CallFails
    <3>2. DOMAIN pc = Handlers
      BY <1>0 DEF TypeOK
    <3>3. pc[h] = "store" => CallFails(h)
      BY <2>1 DEF buildCatalogs, findCatalog, getOCIPackage, LoadIndexFile
    <3>4. \A label : Goto(h, label) => pc'[h] = label
      BY <3>2 DEF Goto
    <3>5. pc'[h] # "store"
      <4>1. CASE buildCatalogs(h)
        BY <3>4, <4>1 DEF buildCatalogs, Answer, Add
      <4>2. CASE findCatalog(h)
        <5>1. \A i : (IF config[i].type = "oci" THEN "oci" ELSE "fetch") # "store"
          OBVIOUS
        <5> QED BY <3>4, <4>2, <5>1 DEF findCatalog, Answer
      <4>3. CASE getOCIPackage(h)
        BY <3>4, <4>3 DEF getOCIPackage, Answer, Show
      <4>4. CASE LoadIndexFile(h)
        <5>1. \A serial, index : getHelmPackage(h, serial, index) => pc'[h] \in {"idle", "panicked"}
          BY <3>4, Zenon DEF getHelmPackage, Answer, Show
        <5> QED BY <3>4, <4>4, <5>1 DEF LoadIndexFile, Answer, Show, Add
      <4>5. CASE CallFails(h)
        BY <3>4, <4>5 DEF CallFails, Answer
      <4> QED BY <2>1, <4>1, <4>2, <4>3, <4>4, <4>5
    <3> QED BY <1>1, <1>4, <3>1, <3>5
  <2> QED BY <1>2, <1>3, <1>4, <2>1 DEF Handle
<1>5. ASSUME NEW h \in Handlers, NEW r, NEW label \in {"next", "find", "idle"}, NEW status,
             Accept(h, r, label, status)
      PROVE  IndexesPublished'
  <2>1. /\ UNCHANGED <<upstream, file, fetched, config>>
        /\ \A g \in Handlers : pc'[g] = "store" => pc[g] = "store" /\ at'[g] = at[g]
    BY <1>0, <1>5 DEF Accept, Goto, TypeOK, process
  <2> QED BY <2>1 DEF IndexesPublished, id, catalog
<1>6. ASSUME NEW h \in Handlers, NEW r, Begin(h, r) \/ HandleOidc(h, r) PROVE IndexesPublished'
  BY <1>5, <1>6 DEF Begin, HandleOidc
<1>7. ASSUME NEW i \in CatalogIds, Publish(i) PROVE IndexesPublished'
  <2>1. /\ UNCHANGED <<file, fetched, config, at, pc>>
        /\ \A j \in CatalogIds : upstream'[j] \in Nat /\ upstream[j] <= upstream'[j]
    BY <1>0, <1>u, <1>7 DEF Publish, TypeOK, process
  <2>2. \A j \in CatalogIds : file[j] \in Nat
    BY <1>0 DEF TypeOK, NoIndex
  <2>3. \A g \in Handlers : fetched[g] \in Nat
    BY <1>0 DEF TypeOK, NoIndex
  <2>4. \A g \in Handlers : pc[g] = "store" => id(g) \in CatalogIds
    BY <1>0, ConfigType DEF IInv, PlacedAt, id, catalog
  <2>5. \A j \in CatalogIds : file'[j] <= upstream'[j]
    BY <1>u, <2>1, <2>2 DEF IndexesPublished
  <2>6. ASSUME NEW g \in Handlers, pc'[g] = "store" PROVE fetched'[g] <= upstream'[id(g)']
    <3>1. id(g)' = id(g) /\ id(g) \in CatalogIds /\ fetched'[g] = fetched[g] /\ fetched[g] \in Nat
      BY <2>1, <2>3, <2>4, <2>6 DEF id, catalog
    <3>2. fetched[g] <= upstream[id(g)]
      BY <2>1, <2>6 DEF IndexesPublished
    <3> QED BY <1>u, <2>1, <3>1, <3>2
  <2> QED BY <2>5, <2>6 DEF IndexesPublished
<1>8. CASE Boot \/ Restart \/ UNCHANGED vars
  <2>1. /\ UNCHANGED <<file, fetched, config, at, upstream>>
        /\ \A g \in Handlers : pc'[g] = "store" => pc[g] = "store"
    BY <1>8 DEF Boot, Restart, vars, process
  <2> QED BY <2>1 DEF IndexesPublished, id, catalog
<1> QED BY <1>4, <1>6, <1>7, <1>8 DEF Next

LEMMA BudgetStep ==
    ASSUME BudgetOK, [Next]_vars
    PROVE  BudgetOK' /\ (budget'.faults = MaxFaults => budget.faults = MaxFaults)
<1>1. ASSUME NEW what \in {"requests", "faults", "crashes"}, Spend(what)
      PROVE  BudgetOK' /\ (budget'.faults = MaxFaults => budget.faults = MaxFaults)
  BY <1>1, BoundsAssumption DEF Spend, BudgetOK
<1>2. CASE UNCHANGED budget
  BY <1>2 DEF BudgetOK
<1>3. CASE Boot \/ UNCHANGED vars \/ \E i \in CatalogIds : Publish(i)
  BY <1>2, <1>3 DEF Boot, Publish, vars
<1>4. ASSUME NEW h \in Handlers, Handle(h) PROVE UNCHANGED budget
  BY <1>4 DEF Handle, buildCatalogs, findCatalog, getOCIPackage, DownloadIndexFile,
              WriteIndexFile, LoadIndexFile
<1>5. Restart => Spend("crashes")
  BY DEF Restart
<1>6. \A h \in Handlers : CallFails(h) => Spend("faults")
  BY DEF CallFails
<1>7. \A h, r : Begin(h, r) \/ HandleOidc(h, r) => Spend("requests")
  BY DEF HandleOidc, Begin, Accept
<1> QED BY <1>1, <1>2, <1>3, <1>4, <1>5, <1>6, <1>7 DEF Next

LEMMA AccountStep == IInv /\ AnswersAccounted /\ [Next]_vars => AnswersAccounted'
<1> SUFFICES ASSUME IInv, AnswersAccounted, [Next]_vars PROVE AnswersAccounted'
  OBVIOUS
<1>0. /\ TypeOK /\ BudgetOK /\ IndexesPublished
      /\ \A s \in Serials : s \in Nat
  BY EntriesAssumption DEF IInv, Serials, AnswersAccounted
<1>1. /\ BudgetOK' /\ (budget'.faults = MaxFaults => budget.faults = MaxFaults)
      /\ IndexesPublished'
  BY <1>0, BudgetStep, IndexesPublishedStep
<1>2. \A i \in CatalogIds : upstream'[i] \in Nat /\ upstream[i] <= upstream'[i]
  <2>1. \A i \in CatalogIds : upstream[i] \in Nat
    BY <1>0 DEF TypeOK
  <2>2. UNCHANGED upstream \/ \E i \in CatalogIds : upstream' = [upstream EXCEPT ![i] = @ + 1]
    <3>1. Boot \/ Restart \/ UNCHANGED vars => UNCHANGED upstream
      BY DEF Boot, Restart, vars
    <3>2. \A i : Publish(i) => upstream' = [upstream EXCEPT ![i] = @ + 1]
      BY DEF Publish
    <3>3. ASSUME NEW h \in Handlers, Handle(h) \/ CallFails(h) PROVE UNCHANGED upstream
      BY <3>3 DEF Handle, buildCatalogs, findCatalog, getOCIPackage, DownloadIndexFile,
                  WriteIndexFile, LoadIndexFile, CallFails
    <3>4. \A h, r : Begin(h, r) \/ HandleOidc(h, r) => UNCHANGED upstream
      BY DEF HandleOidc, Begin, Accept
    <3> QED BY <3>1, <3>2, <3>3, <3>4 DEF Next
  <2>3. ASSUME NEW i \in CatalogIds, upstream' = [upstream EXCEPT ![i] = @ + 1],
               NEW j \in CatalogIds
        PROVE  upstream'[j] \in Nat /\ upstream[j] <= upstream'[j]
    <3>1. upstream'[j] = IF j = i THEN upstream[j] + 1 ELSE upstream[j]
      BY <1>0, <2>3 DEF TypeOK
    <3>2. upstream[j] \in Nat
      BY <2>1
    <3> QED BY <3>1, <3>2
  <2>4. CASE UNCHANGED upstream
    BY <2>1, <2>4
  <2> QED BY <2>2, <2>3, <2>4
<1>3. ASSUME NEW g \in Handlers PROVE Accounted(g)'
  <2>0. Accounted(g)
    BY DEF AnswersAccounted
  <2>1. ASSUME NEW h \in Handlers, Handle(h) \/ CallFails(h) PROVE Accounted(g)'
    <3>1. CASE g = h
      BY <1>0, <2>0, <2>1, <3>1, HandleAccount
    <3>2. CASE g # h
      <4>1. /\ pc'[g] = pc[g] /\ at'[g] = at[g] /\ answer'[g] = answer[g]
            /\ UNCHANGED <<config, ask, since, crossed>>
        BY <1>0, <2>1, <3>2, OthersKeep
      <4> QED BY <1>0, <1>1, <1>2, <2>0, <4>1, KeepsAccount
    <3> QED BY <3>1, <3>2
  <2>2. ASSUME NEW h \in Handlers, NEW r, Begin(h, r) \/ HandleOidc(h, r)
        PROVE  Accounted(g)'
    <3>1. PICK label \in {"next", "find", "idle"}, status \in {0, 401} :
             /\ Accept(h, r, label, status)
             /\ status = 401 => label = "idle"
             /\ r.op # "list" => label = "find"
      BY <2>2 DEF Begin, HandleOidc, Unauthenticated
    <3>2. config' = config
      BY <3>1 DEF Accept, process
    <3>3. CASE g = h
      BY <3>1, <3>3, AcceptAccount
    <3>4. CASE g # h
      <4>1. /\ pc'[g] = pc[g] /\ ask'[g] = ask[g] /\ at'[g] = at[g] /\ answer'[g] = answer[g]
            /\ since'[g] = since[g] /\ crossed'[g] = crossed[g]
        BY <3>1, <3>4, AcceptAccount
      <4> QED BY <1>0, <1>1, <1>2, <2>0, <3>2, <4>1, KeepsAccount
    <3> QED BY <3>3, <3>4
  <2>3. CASE Boot \/ (\E i \in CatalogIds : Publish(i)) \/ UNCHANGED vars
    <3>1. UNCHANGED <<config, pc, ask, at, answer, since, crossed>>
      BY <2>3 DEF Boot, Publish, vars, history, process
    <3> QED BY <1>0, <1>1, <1>2, <2>0, <3>1, KeepsAccount
  <2>4. CASE Restart
    <3>1. pc'[g] = "idle" /\ answer'[g].status = 0
      BY <2>4 DEF Restart, NoAnswer, Blank
    <3> QED BY <3>1 DEF Accounted, Busy
  <2> QED BY <2>1, <2>2, <2>3, <2>4 DEF Next
<1> QED BY <1>1, <1>3 DEF AnswersAccounted

LEMMA AccountInit == Init => AnswersAccounted
<1> SUFFICES ASSUME Init PROVE AnswersAccounted
  OBVIOUS
<1>1. BudgetOK
  BY BoundsAssumption DEF Init, BudgetOK
<1>2. IndexesPublished
  BY DEF Init, IndexesPublished, NoIndex
<1>3. ASSUME NEW h \in Handlers PROVE Accounted(h)
  <2>1. pc[h] = "idle" /\ answer[h].status = 0
    BY DEF Init, NoAnswer, Blank
  <2> QED BY <2>1 DEF Accounted, Busy
<1> QED BY <1>1, <1>2, <1>3 DEF AnswersAccounted

LEMMA Accounting == Spec => [](IInv /\ AnswersAccounted)
<1> QED BY Invariance, AccountStep, AccountInit, PTL DEF Spec

(* What an index lists under a name.                                       *)
LEMMA ListedVersions ==
    ASSUME NEW s \in Serials, NEW i \in CatalogIds, NEW n \in PackageNames
    PROVE  Entries[s][i][n] \in Seq({NoVersion} \cup Version)
<1>1. Entries[s] \in [CatalogIds -> [PackageNames -> Seq({NoVersion} \cup Version)]]
  BY EntriesAssumption DEF Serials
<1> QED BY <1>1

(* What a Helm package's answer has: of the index s, which lists these     *)
(* entries under the name, and all these versions.                         *)
ShownFrom(h, s, listed, all) ==
    /\ s \in Serials /\ s = answer[h].entries[1].serial
    /\ listed = Entries[s][ask[h].id][ask[h].name] /\ all = extractVersions(listed)
    /\ FollowsMode(catalog(h), all, answer[h].versions)
    /\ \A k \in DOMAIN answer[h].versions :
          \E j \in DOMAIN listed : listed[j] = answer[h].versions[k]

LEMMA ShownVersions ==
    ASSUME IInv, NEW h \in Handlers, Accounted(h), ask[h].op = "package",
           answer[h].status = 200, answer[h].entries[1].serial # NoIndex
    PROVE  \E s, listed, all : ShownFrom(h, s, listed, all)
<1>0. TypeOK /\ Shows(h) /\ ValidateCatalogsConfig(config)
  BY DEF IInv, Accounted
<1>s. PICK s, i, n : s = answer[h].entries[1].serial /\ i = ask[h].id /\ n = ask[h].name
  OBVIOUS
<1>1. /\ at[h] \in DOMAIN config /\ s \in Serials
      /\ answer[h].versions = apply(catalog(h), extractVersions(Entries[s][i][n]))
  BY <1>0, <1>s DEF Shows
<1>2. i \in CatalogIds /\ n \in PackageNames
  BY <1>0, <1>s DEF TypeOK, Request
<1>3. catalog(h) \in CatalogConfig /\ validateCommon(catalog(h))
  BY <1>0, <1>1, ConfigType DEF catalog, ValidateCatalogsConfig, ValidateCatalogConfig
<1>4. PICK listed, all :
         /\ listed = Entries[s][i][n] /\ all = extractVersions(listed)
         /\ all \in Seq(Version)
         /\ \A k \in DOMAIN all : \E j \in DOMAIN listed : listed[j] = all[k]
  <2>1. PICK listed : listed = Entries[s][i][n]
    OBVIOUS
  <2>2. listed \in Seq({NoVersion} \cup Version)
    BY <1>1, <1>2, <2>1, ListedVersions
  <2>3. PICK all : all = extractVersions(listed)
    OBVIOUS
  <2> QED BY <2>1, <2>2, <2>3, ExtractedAreListed
<1>k. PICK kept : kept = apply(catalog(h), all)
  OBVIOUS
<1>5. /\ FollowsMode(catalog(h), all, kept)
      /\ \A k \in DOMAIN kept : \E j \in DOMAIN all : all[j] = kept[k]
  BY <1>3, <1>4, <1>k, FilterShows
<1>6. \A k \in DOMAIN kept : \E j \in DOMAIN listed : listed[j] = kept[k]
  BY <1>4, <1>5
<1>7. answer[h].versions = kept
  BY <1>1, <1>k, <1>4
<1>8. /\ FollowsMode(catalog(h), all, answer[h].versions)
      /\ \A k \in DOMAIN answer[h].versions :
            \E j \in DOMAIN listed : listed[j] = answer[h].versions[k]
  <2>1. FollowsMode(catalog(h), all, answer[h].versions)
    BY <1>5, <1>7
  <2>2. \A k \in DOMAIN answer[h].versions :
            \E j \in DOMAIN listed : listed[j] = answer[h].versions[k]
    BY <1>6, <1>7
  <2> QED BY <2>1, <2>2
<1>9. listed = Entries[s][ask[h].id][ask[h].name] /\ all = extractVersions(listed)
  BY <1>s, <1>4, Zenon
<1>10. ShownFrom(h, s, listed, all)
  BY <1>1, <1>s, <1>8, <1>9, Zenon DEF ShownFrom
<1> QED BY <1>10

(* A package of a Helm catalog is shown with the versions its mode says, in*)
(* the order of the index, however long that is (getHelmPackage and the    *)
(* version filters).                                                       *)
THEOREM ModesAreFollowed == Spec => []VersionsFollowMode
<1>1. IInv /\ AnswersAccounted => VersionsFollowMode
  <2> SUFFICES ASSUME IInv, AnswersAccounted, NEW h \in Handlers, ask[h].op = "package",
                      answer[h].status = 200, answer[h].entries[1].serial # NoIndex
               PROVE  FollowsMode(catalog(h), extractVersions(
                          Entries[answer[h].entries[1].serial][ask[h].id][ask[h].name]),
                          answer[h].versions)
    BY DEF VersionsFollowMode
  <2>1. Accounted(h)
    BY DEF AnswersAccounted
  <2>2. PICK s, listed, all : ShownFrom(h, s, listed, all)
    BY <2>1, ShownVersions
  <2> QED BY <2>2, Zenon DEF ShownFrom
<1> QED BY <1>1, Accounting, PTL

(* A version shown to one user resolves for another, unless something      *)
(* failed or the repository no longer serves the index it was shown from   *)
(* (getHelmPackage against resolveHelmPackage, getOCIPackage against       *)
(* resolveOCIPackage).                                                     *)
THEOREM ShownCanBeInstalled == Spec => []ShownIsInstallable
<1>1. IInv /\ AnswersAccounted => ShownIsInstallable
  <2> SUFFICES ASSUME IInv, AnswersAccounted, NEW h \in Handlers, NEW g \in Handlers,
                      ask[h].op = "package", answer[h].status = 200,
                      ask[g].op = "resolve", ask[g].id = ask[h].id, ask[g].name = ask[h].name,
                      \E k \in DOMAIN answer[h].versions :
                         answer[h].versions[k] = ask[g].version,
                      budget.faults = MaxFaults, answer[g].status = 500
               PROVE  LET e == answer[h].entries[1] IN
                      /\ e.serial # NoIndex
                      /\ e.id \in crossed[g] \/ e.serial \notin {since[g][e.id]} \cap {upstream[e.id]}
    BY DEF ShownIsInstallable
  <2>0. TypeOK /\ Accounted(h) /\ Accounted(g)
    BY DEF AnswersAccounted, IInv
  <2>1. Shows(h) /\ Lacks(g) /\ ValidateCatalogsConfig(config)
    BY <2>0 DEF Accounted
  <2>s. PICK s, i : s = answer[h].entries[1].serial /\ i = ask[h].id
    OBVIOUS
  <2>2. at[h] \in DOMAIN config /\ catalog(h).id = i /\ answer[h].entries[1].id = i
    BY <2>1, <2>s DEF Shows
  <2>3. \A n \in DOMAIN config : config[n].id = i => config[n] = catalog(h)
    BY <2>1, <2>2 DEF ValidateCatalogsConfig, catalog
  <2>4. \/ /\ catalog(h).type = "oci"
           /\ ~resolveOCIPackage(catalog(h), ask[h].name, ask[g].version)
        \/ /\ catalog(h).type # "oci"
           /\ \E r \in Serials :
                 /\ r <= upstream[i] /\ Recent(g, i, r)
                 /\ ~resolveHelmPackage(Entries[r][i], ask[h].name, ask[g].version)
    BY <2>1, <2>2, <2>3, <2>s DEF Lacks, catalog
  <2>5. s # NoIndex
    <3> SUFFICES ASSUME s = NoIndex PROVE FALSE
      OBVIOUS
    <3>1. NoIndex \notin Serials
      BY EntriesAssumption DEF Serials, NoIndex
    <3>2. PICK p : p = ociPackage(catalog(h), ask[h].name)
      OBVIOUS
    <3>3. /\ catalog(h).type = "oci" /\ p # 0
          /\ answer[h].versions = catalog(h).packages[p].versions
      <4>1. answer[h].entries[1].serial \notin Serials
        BY <2>s, <3>1
      <4>2. LET q == ociPackage(catalog(h), ask[h].name)
            IN  \/ answer[h].entries[1].serial \in Serials
                \/ /\ catalog(h).type = "oci" /\ q # 0
                   /\ answer[h].versions = catalog(h).packages[q].versions
        BY <2>1, Zenon DEF Shows
      <4> QED BY <3>2, <4>1, <4>2
    <3>4. \E k \in DOMAIN catalog(h).packages[p].versions :
             catalog(h).packages[p].versions[k] = ask[g].version
      BY <3>3
    <3>5. resolveOCIPackage(catalog(h), ask[h].name, ask[g].version)
      BY <3>2, <3>3, <3>4, Zenon DEF resolveOCIPackage
    <3> QED BY <2>4, <3>3, <3>5
  <2>6. catalog(h).type # "oci"
    BY <2>1, <2>5, <2>s DEF Shows
  <2>7. PICK r \in Serials :
           /\ r <= upstream[i] /\ Recent(g, i, r)
           /\ ~resolveHelmPackage(Entries[r][i], ask[h].name, ask[g].version)
    BY <2>4, <2>6
  <2>8. ASSUME i \notin crossed[g], s = since[g][i], s = upstream[i] PROVE FALSE
    <3>1. s >= r /\ r >= s /\ r \in Nat
      BY <2>7, <2>8, EntriesAssumption DEF Recent, Serials
    <3>2. PICK t, listed, all : ShownFrom(h, t, listed, all)
      BY <2>0, <2>5, <2>s, ShownVersions
    <3>3. t = s /\ s \in Serials /\ listed = Entries[s][i][ask[h].name]
          /\ \A k \in DOMAIN answer[h].versions :
                \E j \in DOMAIN listed : listed[j] = answer[h].versions[k]
      BY <2>s, <3>2, Zenon DEF ShownFrom
    <3>4. s \in Nat
      BY <3>3, EntriesAssumption DEF Serials
    <3>5. s = r
      BY <3>1, <3>4
    <3>6. \E j \in DOMAIN listed : listed[j] = ask[g].version
      BY <3>3
    <3> QED BY <2>7, <3>3, <3>5, <3>6, Zenon DEF resolveHelmPackage
  <2> QED BY <2>2, <2>5, <2>8, <2>s
<1> QED BY <1>1, Accounting, PTL

-----------------------------------------------------------------------------
(* What is left to do for a request: a catalog takes four steps at most,   *)
(* one to come to it and three to download, write and read its index; n of *)
(* them are configured, and the request is at the kth.                     *)
LeftAt(label, n, k) ==
    CASE label = "find" -> 4 * n + 1
      [] label = "next" -> 4 * (n + 1 - k) + 1
      [] label = "fetch" -> 4 * (n + 1 - k)
      [] label = "store" -> 4 * (n + 1 - k) - 1
      [] label = "load" -> 4 * (n + 1 - k) - 2
      [] label = "oci" -> 1
      [] OTHER -> 0

StepsLeft(h) == LeftAt(pc[h], Len(config), at[h])
Works(h) == Handle(h) \/ CallFails(h)

(* A request takes four steps for each configured catalog, and one, at     *)
(* most: each step leaves fewer, and nothing that others do (indexes       *)
(* published, the files written and read beside it) leaves it more.        *)
StepsAreBounded == \A h \in Handlers : StepsLeft(h) \in 0 .. 4 * Len(config) + 1
StepsRunOut ==
    [][\A h \in Handlers :
          /\ Works(h) => StepsLeft(h)' < StepsLeft(h)
          /\ pc[h] \in Busy => StepsLeft(h)' <= StepsLeft(h)]_vars

(* The loop over the catalogs ends behind the last one.                    *)
Within(h) == pc[h] = "next" => at[h] <= Len(config) + 1
LoopsStayWithin == \A h \in Handlers : Within(h)

LEMMA LeftAtType ==
    ASSUME NEW n \in Nat, NEW k \in 1 .. n + 1, NEW label
    PROVE  /\ label \in {"fetch", "store", "load"} /\ k # n + 1
              => LeftAt(label, n, k) \in 1 .. 4 * n + 1
           /\ label \notin {"fetch", "store", "load"} => LeftAt(label, n, k) \in 0 .. 4 * n + 1
           /\ label \in {"next", "find", "oci"} => LeftAt(label, n, k) > 0
           /\ label \notin Busy => LeftAt(label, n, k) = 0
<1>1. CASE label = "find"
  BY <1>1 DEF LeftAt, Busy
<1>2. CASE label = "next"
  BY <1>2 DEF LeftAt, Busy
<1>3. CASE label = "fetch"
  BY <1>3 DEF LeftAt, Busy
<1>4. CASE label = "store"
  BY <1>4 DEF LeftAt, Busy
<1>5. CASE label = "load"
  BY <1>5 DEF LeftAt, Busy
<1>6. CASE label = "oci"
  BY <1>6 DEF LeftAt, Busy
<1>7. CASE label \notin Busy
  BY <1>7 DEF LeftAt, Busy
<1> QED BY <1>1, <1>2, <1>3, <1>4, <1>5, <1>6, <1>7 DEF Busy

LEMMA LeftAtFalls ==
    ASSUME NEW n \in Nat, NEW k \in 1 .. n
    PROVE  /\ LeftAt("next", n, k + 1) < LeftAt("load", n, k)
           /\ LeftAt("load", n, k) < LeftAt("store", n, k)
           /\ LeftAt("store", n, k) < LeftAt("fetch", n, k)
           /\ LeftAt("fetch", n, k) < LeftAt("next", n, k)
           /\ LeftAt("next", n, k + 1) < LeftAt("next", n, k)
           /\ LeftAt("fetch", n, k) < LeftAt("find", n, k)
           /\ LeftAt("oci", n, k) < LeftAt("find", n, k)
           /\ \A j \in 1 .. n + 1 : LeftAt("find", n, j) = LeftAt("find", n, k)
BY DEF LeftAt

(* A request of its own.                                                   *)
LEMMA OwnStepsLeft ==
    ASSUME IInv, LoopsStayWithin, NEW h \in Handlers, Works(h)
    PROVE  StepsLeft(h)' < StepsLeft(h) /\ Within(h)'
<1> DEFINE n == Len(config)
           k == at[h]
<1>c. config' = config
  BY DEF Works, Handle, CallFails, buildCatalogs, findCatalog, getOCIPackage,
         DownloadIndexFile, WriteIndexFile, LoadIndexFile, process
<1>n. /\ n \in Nat /\ DOMAIN config = 1 .. n /\ k \in Nat \ {0}
      /\ at \in [Handlers -> Nat \ {0}] /\ pc \in [Handlers -> Busy \cup {"idle", "panicked"}]
  BY ConfigurationsAssumption DEF IInv, TypeOK
<1>p. /\ pc[h] \in {"oci", "fetch", "store", "load"} => k \in 1 .. n
      /\ pc[h] = "next" => k \in 1 .. n + 1
  BY <1>n DEF IInv, PlacedAt, LoopsStayWithin, Within
<1>s. StepsLeft(h) = LeftAt(pc[h], n, k) /\ StepsLeft(h)' = LeftAt(pc'[h], n, at'[h])
  BY <1>c DEF StepsLeft
<1>0. LeftAt("find", n, k) = 4 * n + 1
  BY DEF LeftAt
<1>1. ASSUME pc'[h] \in {"idle", "panicked"}, pc[h] \in Busy
      PROVE  StepsLeft(h)' < StepsLeft(h) /\ Within(h)'
  <2>1. LeftAt(pc'[h], n, at'[h]) = 0
    BY <1>1 DEF LeftAt
  <2>2. LeftAt(pc[h], n, k) > 0
    BY <1>0, <1>1, <1>n, <1>p, LeftAtType DEF Busy
  <2> QED BY <1>1, <1>s, <2>1, <2>2 DEF Within
<1>2. ASSUME pc'[h] = "next", at'[h] = k + 1, pc[h] \in {"next", "load"}, k \in 1 .. n
      PROVE  StepsLeft(h)' < StepsLeft(h) /\ Within(h)'
  <2>1. LeftAt("next", n, k + 1) < LeftAt(pc[h], n, k)
    BY <1>2, <1>n, LeftAtFalls
  <2> QED BY <1>2, <1>c, <1>n, <1>s, <2>1 DEF Within
<1>3. ASSUME pc'[h] # "next", at'[h] = k, k \in 1 .. n,
             <<pc[h], pc'[h]>> \in {<<"next", "fetch">>, <<"fetch", "store">>, <<"store", "load">>}
      PROVE  StepsLeft(h)' < StepsLeft(h) /\ Within(h)'
  <2>1. \/ pc[h] = "next" /\ pc'[h] = "fetch"
        \/ pc[h] = "fetch" /\ pc'[h] = "store"
        \/ pc[h] = "store" /\ pc'[h] = "load"
    BY <1>3
  <2>2. LeftAt(pc'[h], n, k) < LeftAt(pc[h], n, k)
    BY <1>3, <1>n, <2>1, LeftAtFalls
  <2> QED BY <1>3, <1>s, <2>2 DEF Within
<1>4. ASSUME NEW status, Answer(h, status) PROVE pc'[h] = "idle"
  BY <1>4, <1>n DEF Answer, Goto
<1>5. ASSUME NEW e, Add(h, e) PROVE pc'[h] = "next" /\ at'[h] = k + 1
  BY <1>5, <1>n DEF Add, Goto
<1>6. ASSUME NEW names, NEW serial, NEW versions, NEW status, Show(h, names, serial, versions, status)
      PROVE  pc'[h] = "idle"
  BY <1>6, <1>n DEF Show, Goto
<1>7. CASE buildCatalogs(h)
  <2>0. pc[h] = "next" /\ pc[h] \in Busy /\ k \in 1 .. n + 1
    BY <1>7, <1>p DEF buildCatalogs, Busy
  <2>1. CASE k > n
    <3>1. Answer(h, 200)
      BY <1>7, <1>n, <2>1 DEF buildCatalogs
    <3> QED BY <1>1, <1>4, <2>0, <3>1
  <2>2. CASE k <= n
    <3>1. \/ at' = [at EXCEPT ![h] = @ + 1] /\ UNCHANGED pc
          \/ \E e : Add(h, e)
          \/ Goto(h, "fetch") /\ UNCHANGED at
      BY <1>7, <1>n, <2>2 DEF buildCatalogs
    <3>2. \/ pc'[h] = "next" /\ at'[h] = k + 1
          \/ pc'[h] = "fetch" /\ at'[h] = k
      BY <1>5, <1>n, <2>0, <3>1 DEF Goto
    <3> QED BY <1>2, <1>3, <1>n, <2>0, <2>2, <3>2
  <2> QED BY <1>n, <2>1, <2>2
<1>8. CASE findCatalog(h)
  <2>0. pc[h] = "find" /\ pc[h] \in Busy
    BY <1>8 DEF findCatalog, Busy
  <2>1. CASE \E status : Answer(h, status)
    BY <1>1, <1>4, <2>0, <2>1
  <2>2. ASSUME NEW i \in DOMAIN config, at' = [at EXCEPT ![h] = i],
               Goto(h, IF config[i].type = "oci" THEN "oci" ELSE "fetch")
        PROVE  StepsLeft(h)' < StepsLeft(h) /\ Within(h)'
    <3>1. at'[h] = i /\ i \in 1 .. n /\ (pc'[h] = "oci" \/ pc'[h] = "fetch")
      BY <1>n, <2>2 DEF Goto
    <3>2. LeftAt(pc'[h], n, i) < LeftAt("find", n, i)
      BY <1>n, <3>1, LeftAtFalls
    <3>3. LeftAt("find", n, i) = LeftAt("find", n, k)
      BY DEF LeftAt
    <3> QED BY <1>s, <2>0, <3>1, <3>2, <3>3 DEF Within
  <2> QED BY <1>8, <2>1, <2>2 DEF findCatalog
<1>9. CASE getOCIPackage(h) \/ CallFails(h)
  <2>1. \/ \E status : Answer(h, status)
        \/ \E names, serial, versions, status : Show(h, names, serial, versions, status)
    BY <1>9 DEF getOCIPackage, CallFails
  <2>2. pc[h] \in Busy
    BY <1>9 DEF getOCIPackage, CallFails, Busy
  <2> QED BY <1>1, <1>4, <1>6, <2>1, <2>2
<1>10. CASE DownloadIndexFile(h) \/ WriteIndexFile(h)
  <2>1. /\ at'[h] = k
        /\ \/ pc[h] = "fetch" /\ pc'[h] = "store"
           \/ pc[h] = "store" /\ pc'[h] = "load"
    BY <1>10, <1>n DEF DownloadIndexFile, WriteIndexFile, Goto
  <2> QED BY <1>3, <1>p, <2>1
<1>11. CASE LoadIndexFile(h)
  <2>0. pc[h] = "load" /\ pc[h] \in Busy
    BY <1>11 DEF LoadIndexFile, Busy
  <2>1. ASSUME NEW serial, NEW index, getHelmPackage(h, serial, index)
        PROVE  pc'[h] \in {"idle", "panicked"}
    <3>1. \/ Answer(h, 404)
          \/ Goto(h, "panicked")
          \/ \E names, versions : Show(h, names, serial, versions, 200)
      BY <2>1, Zenon DEF getHelmPackage
    <3>2. Goto(h, "panicked") => pc'[h] = "panicked"
      BY <1>n DEF Goto
    <3> QED BY <1>4, <1>6, <3>1, <3>2
  <2> DEFINE serial == file[id(h)]
             index == Entries[serial][id(h)]
  <2>2. \/ Add(h, Entry(h, listHelmPackages(catalog(h), index), serial))
        \/ getHelmPackage(h, serial, index)
        \/ Show(h, {ask[h].name}, serial, <<ask[h].version>>, 200)
        \/ Answer(h, 500)
    BY <1>11 DEF LoadIndexFile
  <2>3. CASE \E e : Add(h, e)
    BY <1>2, <1>5, <1>p, <2>0, <2>3
  <2>4. pc'[h] \in {"idle", "panicked"} \/ \E e : Add(h, e)
    BY <1>4, <1>6, <2>1, <2>2
  <2> QED BY <1>1, <2>0, <2>3, <2>4
<1> QED BY <1>7, <1>8, <1>9, <1>10, <1>11 DEF Works, Handle

LEMMA OthersStepsLeft ==
    ASSUME TypeOK, NEW h \in Handlers, config' = config, pc'[h] = pc[h], at'[h] = at[h]
    PROVE  StepsLeft(h)' = StepsLeft(h) /\ (Within(h) => Within(h)')
BY DEF StepsLeft, Within

(* A new request, a restart, and what is none of the handlers' doing.      *)
LEMMA NewStepsLeft ==
    ASSUME IInv, NEW h \in Handlers, LoopsStayWithin,
           \/ Boot \/ Restart \/ (\E i \in CatalogIds : Publish(i)) \/ UNCHANGED vars
           \/ \E g \in Handlers : \E r, label, status : Accept(g, r, label, status)
    PROVE  /\ pc[h] \in Busy => StepsLeft(h)' = StepsLeft(h) \/ StepsLeft(h)' = 0
           /\ Within(h)'
<1>n. /\ Len(config) \in Nat /\ TypeOK /\ Within(h)
      /\ at \in [Handlers -> Nat \ {0}] /\ pc \in [Handlers -> Busy \cup {"idle", "panicked"}]
  BY ConfigurationsAssumption DEF IInv, TypeOK, LoopsStayWithin
<1>c. config' = config
  BY DEF Boot, Restart, Publish, Accept, vars, process
<1>1. CASE Restart
  <2>1. pc'[h] = "idle"
    BY <1>1 DEF Restart
  <2> QED BY <2>1 DEF StepsLeft, LeftAt, Within
<1>2. CASE Boot \/ (\E i \in CatalogIds : Publish(i)) \/ UNCHANGED vars
  <2>1. UNCHANGED <<pc, at>>
    BY <1>2 DEF Boot, Publish, vars
  <2> QED BY <1>c, <1>n, <2>1, OthersStepsLeft
<1>3. ASSUME NEW g \in Handlers, NEW r, NEW label, NEW status, Accept(g, r, label, status)
      PROVE  /\ pc[h] \in Busy => StepsLeft(h)' = StepsLeft(h)
             /\ Within(h)'
  <2>1. CASE g = h
    <3>1. pc[h] \notin Busy /\ at'[h] = 1
      BY <1>3, <1>n, <2>1 DEF Accept, Busy
    <3> QED BY <1>c, <1>n, <3>1 DEF Within
  <2>2. CASE g # h
    <3>1. pc'[h] = pc[h] /\ at'[h] = at[h]
      BY <1>3, <1>n, <2>2 DEF Accept, Goto
    <3> QED BY <1>c, <1>n, <3>1, OthersStepsLeft
  <2> QED BY <2>1, <2>2
<1> QED BY <1>1, <1>2, <1>3

LEMMA WithinStep == IInv /\ LoopsStayWithin /\ [Next]_vars => LoopsStayWithin'
<1> SUFFICES ASSUME IInv, LoopsStayWithin, [Next]_vars, NEW h \in Handlers PROVE Within(h)'
  BY DEF LoopsStayWithin
<1>1. ASSUME NEW g \in Handlers, Works(g) PROVE Within(h)'
  <2>1. CASE g = h
    BY <1>1, <2>1, OwnStepsLeft
  <2>2. CASE g # h
    BY <1>1, <2>2, OthersKeep, OthersStepsLeft DEF Works, IInv, LoopsStayWithin
  <2> QED BY <2>1, <2>2
<1> QED BY <1>1, NewStepsLeft DEF Next, Works, HandleOidc, Begin

(* A request ends after a number of steps that the configuration bounds,   *)
(* whatever the repositories publish and the requests beside it do to the  *)
(* files: the half of its end that owes nothing to the scheduler           *)
(* (buildCatalogs, GetPackage, ResolvePackage).                            *)
THEOREM RequestsAreBounded == Spec => []StepsAreBounded /\ StepsRunOut
<1> DEFINE Inv == IInv /\ LoopsStayWithin
           RunOut == \A h \in Handlers :
               /\ Works(h) => StepsLeft(h)' < StepsLeft(h)
               /\ pc[h] \in Busy => StepsLeft(h)' <= StepsLeft(h)
<1>1. Init => LoopsStayWithin
  BY DEF Init, LoopsStayWithin, Within
<1>2. Inv => StepsAreBounded
  <2> SUFFICES ASSUME Inv, NEW h \in Handlers PROVE StepsLeft(h) \in 0 .. 4 * Len(config) + 1
    BY DEF StepsAreBounded
  <2>1. Len(config) \in Nat /\ DOMAIN config = 1 .. Len(config) /\ at[h] \in Nat \ {0}
    BY ConfigurationsAssumption DEF IInv, TypeOK
  <2>2. CASE pc[h] \in {"fetch", "store", "load"}
    <3>1. at[h] \in 1 .. Len(config)
      BY <2>1, <2>2 DEF IInv, PlacedAt
    <3>2. at[h] \in 1 .. Len(config) + 1 /\ at[h] # Len(config) + 1
      BY <2>1, <3>1
    <3> QED BY <2>1, <2>2, <3>2, LeftAtType DEF StepsLeft
  <2>3. CASE pc[h] = "next"
    <3>1. at[h] \in 1 .. Len(config) + 1
      BY <2>1, <2>3 DEF LoopsStayWithin, Within
    <3> QED BY <2>1, <2>3, <3>1, LeftAtType DEF StepsLeft
  <2>4. CASE pc[h] \notin {"next", "fetch", "store", "load"}
    BY <2>1, <2>4 DEF StepsLeft, LeftAt
  <2> QED BY <2>2, <2>3, <2>4
<1>3. Inv' => StepsAreBounded'
  BY <1>2, PTL
<1>4. Inv /\ [Next]_vars => [RunOut]_vars
  <2> SUFFICES ASSUME Inv, Next, NEW h \in Handlers
               PROVE  /\ Works(h) => StepsLeft(h)' < StepsLeft(h)
                      /\ pc[h] \in Busy => StepsLeft(h)' <= StepsLeft(h)
    OBVIOUS
  <2>i. StepsLeft(h) \in Nat /\ StepsLeft(h)' \in Nat
    <3>1. StepsAreBounded /\ StepsAreBounded'
      BY <1>2, <1>3, InvStep, WithinStep
    <3> QED BY <3>1 DEF StepsAreBounded
  <2>1. Works(h) => StepsLeft(h)' < StepsLeft(h)
    BY OwnStepsLeft
  <2>2. ASSUME NEW g \in Handlers, Works(g) PROVE StepsLeft(h)' <= StepsLeft(h)
    <3>1. CASE g = h
      BY <2>1, <2>2, <2>i, <3>1
    <3>2. CASE g # h
      <4>1. StepsLeft(h)' = StepsLeft(h)
        BY <2>2, <3>2, OthersKeep, OthersStepsLeft DEF Works, IInv
      <4> QED BY <2>i, <4>1
    <3> QED BY <3>1, <3>2
  <2>3. ASSUME pc[h] \in Busy, ~\E g \in Handlers : Works(g)
        PROVE  StepsLeft(h)' = StepsLeft(h) \/ StepsLeft(h)' = 0
    BY <2>3, NewStepsLeft DEF Next, Works, HandleOidc, Begin
  <2> QED BY <2>1, <2>2, <2>3, <2>i
<1> QED BY Invariance, InvStep, WithinStep, <1>1, <1>2, <1>4, PTL DEF Spec, StepsRunOut
=============================================================================
