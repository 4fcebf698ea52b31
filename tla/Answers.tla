------------------------------- MODULE Answers -------------------------------
(***************************************************************************)
(* AllExceptionsFilter: the HTTP status a request is answered with when    *)
(* its handler throws.  An error is a record: the class of what was thrown *)
(* and, for an HttpException, the status it carries or, for anything with  *)
(* a `code`, that code.  Messages and the other fields of the body are     *)
(* left out.                                                               *)
(***************************************************************************)
EXTENDS Integers

\* PRISMA_KNOWN_ERROR_MAP, by the status.
NotFoundCodes == {"P2001", "P2015", "P2017", "P2018", "P2025"}
ConflictCodes == {"P2002", "P2003", "P2014", "P2028", "P2034"}
UnprocessableCodes == {"P2021", "P2022"}
UnavailableCodes == {"P2024", "P2037"}

\* What the map does not name, and what it names as such, is a bad request.
StatusOfCode(code) ==
  CASE code \in NotFoundCodes -> 404
    [] code \in ConflictCodes -> 409
    [] code \in UnprocessableCodes -> 422
    [] code \in UnavailableCodes -> 503
    [] OTHER -> 400

\* The errors the handlers throw themselves or get from the client library.
Http(status) == [class |-> "HttpException", status |-> status]
Prisma(code) == [class |-> "KnownRequest", code |-> code]
Thrown(class) == [class |-> class]

\* handlePrismaException first, then catch.
StatusOf(error) ==
  CASE error.class \in {"Validation", "UnknownRequest"} -> 400
    [] error.class \in {"Initialization", "RustPanic"} -> 503
    [] error.class = "KnownRequest" -> StatusOfCode(error.code)
    [] error.class = "HttpException" -> error.status
    [] OTHER -> 500

=============================================================================
