------------------------- MODULE ServicesControllers -------------------------
(***************************************************************************)
(* What the controllers of the services API make of what their use case    *)
(* gives them: a response, an error, or both                               *)
(* (services/api/controller, services/api/route/handler.go).               *)
(*                                                                         *)
(* A use case gives the set of its one value, empty with an error; the     *)
(* values are records of services/domain.                                  *)
(***************************************************************************)
EXTENDS ServicesHttp

Responds(type, value) == [response |-> {Response(type, value)}, error |-> "none"]
Fails(error) == [response |-> {}, error |-> error]
FailsWith(type, value, error) == [response |-> {Response(type, value)}, error |-> error]

MkProblem(title, status, detail) ==
    [type |-> {}, title |-> {title}, status |-> {status}, detail |-> {detail},
     instance |-> {}, additional |-> NoField]
NoProblem ==
    [type |-> {}, title |-> {}, status |-> {}, detail |-> {}, instance |-> {},
     additional |-> NoField]

-----------------------------------------------------------------------------
(* The listing.  A text without a language is an error of NewLocalizedString*)
(* that buildCatalogs drops: the text is then of no type.                  *)
NewLocalizedString(texts) == IF DOMAIN texts = {} THEN {} ELSE {texts}

buildCatalogs(configs, packages) ==
    [i \in DOMAIN configs |->
        [id |-> configs[i].id, name |-> NewLocalizedString(configs[i].name),
         description |-> NewLocalizedString(configs[i].description),
         status |-> configs[i].status, highlightedPackages |-> configs[i].highlighted,
         packages |-> packages]]

ApiPackage(p) ==
    [name |-> p.name, description |-> {p.description}, icon |-> p.icon, home |-> {p.home}]

NonEmpty(list) == IF list = <<>> THEN {} ELSE {list}

ApiCatalog(c) ==
    [id |-> c.id,
     name |-> IF c.name = {} THEN Untyped ELSE NewLocalizedString1LocalizedString(The(c.name)),
     description |-> {NewLocalizedString1LocalizedString(d) : d \in c.description},
     status |-> {s \in {c.status} : ValidateCatalogStatus(s)},
     highlightedPackages |-> NonEmpty(c.highlightedPackages),
     visible |-> {},
     packages |-> NonEmpty([i \in DOMAIN c.packages |-> ApiPackage(c.packages[i])])]

GetMyCatalogs(catalogs) ==
    IF catalogs = {}
    THEN FailsWith("Problem", MkProblem("Unable to list catalogs", 500, "error"), "Internal")
    ELSE LET listed == The(catalogs)
         IN  Responds("GetMyCatalogsOKApplicationJSON",
                      [i \in DOMAIN listed |-> ApiCatalog(listed[i])])

-----------------------------------------------------------------------------
(* One package: that it is not found is a response, anything else an error.*)

DetailedPackage(p) ==
    [name |-> p.name, description |-> {p.description}, icon |-> p.icon, home |-> {p.home},
     versions |-> p.versions]

PackageProblem == MkProblem("Unable to get package", 500, "error")

GetMyPackage(pkg, error) ==
    CASE error = "none"     -> Responds("DetailedPackage", DetailedPackage(The(pkg)))
      [] error = "NotFound" ->
            Responds("GetMyPackageNotFound", MkProblem("Not found", 404, error))
      [] OTHER -> FailsWith("GetMyPackageInternalServerError", PackageProblem, "Internal")

(* A schema must be an object; null is one that is empty.                  *)
GetPackageSchema(raw) ==
    IF raw = {}
    THEN FailsWith("GetPackageSchemaInternalServerError",
                   MkProblem("Unable to get package schema", 500, "error"), "Internal")
    ELSE IF Is("obj", The(raw)) THEN Responds("GetPackageSchemaOK", The(raw).obj)
    ELSE IF The(raw) = Null THEN Responds("GetPackageSchemaOK", NoField)
    ELSE Fails("Internal")

-----------------------------------------------------------------------------
(* An installation: every failure has a response of its own, and an error. *)
StartErrors == {"none", "ErrInvalidInput", "ErrForbidden", "ErrAlreadyExists", "other"}

InstallRefused(user, request) ==
    IF user = {} THEN "InstallServiceForbidden"
    ELSE IF request.packageName = "" \/ request.catalogId = "" THEN "InstallServiceBadRequest"
    ELSE "none"

InstallFailure(error) ==
    CASE error = "ErrInvalidInput"  -> "InstallServiceBadRequest"
      [] error = "ErrForbidden"     -> "InstallServiceForbidden"
      [] error = "ErrAlreadyExists" -> "InstallServiceConflict"
      [] OTHER                      -> "InstallServiceInternalServerError"

InstallService(user, request, error) ==
    IF InstallRefused(user, request) # "none"
    THEN FailsWith(InstallRefused(user, request), NoProblem, "Internal")
    ELSE IF error # "none" THEN FailsWith(InstallFailure(error), NoProblem, "Internal")
    ELSE Responds("InstallAcceptedHeaders",
                  [location |-> "",
                   response |-> [eventsUrl |-> [release |-> "", resources |-> ""]]])

WatchRelease == Fails("NotImplemented")
WatchResources == Fails("NotImplemented")
=============================================================================
