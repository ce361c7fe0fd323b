----------------------------- MODULE Transport ------------------------------
(***************************************************************************)
(* One conditional GET (_transport.py): what a status, a size, a header or *)
(* an exception becomes for the poller.                                    *)
(*                                                                         *)
(* An exchange is a response, or the exception that urllib or the read of  *)
(* the body raised instead.  The opener follows no redirect and raises     *)
(* every status outside 2xx as an HTTPError, which is the response.        *)
(***************************************************************************)
EXTENDS Integers

CONSTANTS
  Body,   \* what a response may carry
  None    \* no body, the empty ETag

(* How Retry-After is spelt: digits that float() takes, digits that only    *)
(* int() takes, digits that neither takes, or anything else.                *)
Header == {"absent", "digits", "pastDouble", "pastInt", "date"}

(* FetchOutcome.retry_after_seconds: 0, a number, a number past the doubles.*)
RetryAfter == {"none", "seconds", "overflow"}

ParseRetryAfter(header) ==
  IF header = "digits" THEN "seconds"
  ELSE IF header = "pastDouble" THEN "overflow"
  ELSE "none"

Caught == {"URLError", "OSError", "ValueError"}

(* A bad status line, or a chunked body cut short, is an HTTPException; a   *)
(* scheme without a handler leaves None where a response is expected; an    *)
(* endless timeout overflows; and Request() is outside the try, so that its *)
(* ValueError for a URL it cannot read is not among those that are caught.  *)
Uncaught == {"HTTPException", "TypeError", "OverflowError", "malformedURL"}

Exchange ==
  [raised : Caught \cup Uncaught \cup {"nothing"}, status : Nat,
   body : Body \cup {None}, fits : BOOLEAN, etag : Body \cup {None}, retryAfter : Header]

FetchKind ==
  {"success", "notModified", "unauthorized", "rateLimited", "serverError",
   "unexpectedStatus", "transportError", "responseTooLarge"}

Outcome ==
  [kind : FetchKind \cup {"none"}, body : Body \cup {None}, etag : Body \cup {None},
   retryAfter : RetryAfter]

Bare(kind) == [kind |-> kind, body |-> None, etag |-> None, retryAfter |-> "none"]

NoOutcome == Bare("none")

MapStatus(response) ==
  IF response.status = 304 THEN Bare("notModified")
  ELSE IF response.status \in {401, 403} THEN Bare("unauthorized")
  ELSE IF response.status = 429
       THEN [Bare("rateLimited") EXCEPT !.retryAfter = ParseRetryAfter(response.retryAfter)]
  ELSE IF response.status >= 500 THEN Bare("serverError")
  ELSE Bare("unexpectedStatus")

(* fits: no more than MAX_RESPONSE_BYTES came before the end.               *)
ReadSuccess(response) ==
  IF response.status # 200 THEN MapStatus(response)
  ELSE IF ~response.fits THEN Bare("responseTooLarge")
  ELSE [kind |-> "success", body |-> response.body, etag |-> response.etag,
        retryAfter |-> "none"]

FetchRuleset(exchange) ==
  IF exchange.raised \in Caught THEN Bare("transportError")
  ELSE IF exchange.status \in 200..299 THEN ReadSuccess(exchange)
  ELSE MapStatus(exchange)
=============================================================================
