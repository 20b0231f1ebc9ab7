------------------------------ MODULE HttpGet ------------------------------
(***************************************************************************)
(* One GET request (core/http_client.cpp) seen from the caller: the        *)
(* address, the socket and the header of the answer.  A URL is [scheme,    *)
(* host, port]; the port is NoPort without a colon, and 0 if what follows  *)
(* the colon is empty or no number.  An exchange is what the network and   *)
(* the server make of a request: the step it breaks at ("none" if it does  *)
(* not), whether the header was terminated when the connection closed, the *)
(* status in it, and the body as far as it came.                           *)
(***************************************************************************)
EXTENDS Integers

NoPort == -1

Steps == {"lookup", "create", "connect", "write", "read"}

NoError == "none"

-----------------------------------------------------------------------------
(* The address: parseHttpUrl.                                              *)

ValidPort(port) == port = NoPort \/ port \in 1..65535

UrlError(url) ==
  IF url.scheme = "https" THEN "https not supported"
  ELSE IF url.scheme # "http" THEN "no http"
  ELSE IF url.host = "" THEN "no host"
  ELSE IF ~ValidPort(url.port) THEN "bad port"
  ELSE NoError

-----------------------------------------------------------------------------
(* The connection: socketConnect, writeAll, readAll.  On the Wii U a       *)
(* socket that cannot be created is just an address that does not connect. *)

ConnectionError(exchange, onWii) ==
  CASE exchange.breaks = "lookup"             -> "DNS lookup failed"
    [] exchange.breaks = "create" /\ onWii    -> "socket create failed"
    [] exchange.breaks = "create" /\ ~onWii   -> "socket connect failed"
    [] exchange.breaks = "connect"            -> "socket connect failed"
    [] exchange.breaks = "write"              -> "socket write failed"
    [] exchange.breaks = "read"               -> "socket read failed"
    [] OTHER                                  -> NoError

-----------------------------------------------------------------------------
(* The answer: parseHttpResponse, and what the caller makes of the status. *)

\* A connection that is closed early is the end of the answer.
ResponseError(exchange) ==
  IF ~exchange.terminated THEN "missing header terminator"
  ELSE IF exchange.status <= 0 THEN "invalid status line" ELSE NoError

IsSuccessStatus(status) == status \in 200..299

\* SocketHttpClient::get, then isSuccessStatus: the error a request ends with.
GetError(url, exchange, onWii) ==
  IF UrlError(url) # NoError THEN UrlError(url)
  ELSE IF ConnectionError(exchange, onWii) # NoError THEN ConnectionError(exchange, onWii)
  ELSE IF ResponseError(exchange) # NoError THEN ResponseError(exchange)
  ELSE IF ~IsSuccessStatus(exchange.status) THEN "HTTP status" ELSE NoError
=============================================================================
