----------------------------- MODULE HttpErrors -----------------------------
(***************************************************************************)
(* What a client is answered when its request ends with an exception: the  *)
(* status DomainExceptionFilter gives to each code.  The filter looks for  *)
(* an error of the domain first, then for an exception of the HTTP layer,  *)
(* then for a failed query, and answers 500 to everything else.  Every     *)
(* error of the domain has an entry of its own in the table.               *)
(***************************************************************************)
EXTENDS Integers

\* DOMAIN_ERROR_STATUS
DomainErrorStatus ==
    [CUSTOMER_NOT_FOUND      |-> 404,
     PRODUCT_NOT_FOUND       |-> 404,
     ORDER_NOT_FOUND         |-> 404,
     ORDER_NOT_PAYABLE       |-> 409,
     ORDER_ACCESS_DENIED     |-> 403,
     INSUFFICIENT_FUNDS      |-> 409,
     CUSTOMER_EMAIL_TAKEN    |-> 409,
     INVALID_ORDER           |-> 400,
     INVALID_PAYMENT_REQUEST |-> 400]

\* What the guards, the pipes, the controllers and one query throw.
HttpExceptionStatus == [UNAUTHORIZED |-> 401, BAD_REQUEST |-> 400, NOT_FOUND |-> 404]

\* A query that failed, by the class of its SQLSTATE.
QueryErrorStatus ==
    [UNIQUE_CONSTRAINT |-> 409,
     DB_CONSTRAINT     |-> 400,
     INVALID_ID_FORMAT |-> 400,
     DATABASE_ERROR    |-> 500]

StatusOf(code) ==
    CASE code \in DOMAIN DomainErrorStatus   -> DomainErrorStatus[code]
      [] code \in DOMAIN HttpExceptionStatus -> HttpExceptionStatus[code]
      [] code \in DOMAIN QueryErrorStatus    -> QueryErrorStatus[code]
      [] OTHER                               -> 500

\* The client is to blame: it is told to change its request, not to repeat it.
ClientError(code) == StatusOf(code) \in 400 .. 499
=============================================================================
