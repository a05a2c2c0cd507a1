--------------------------- MODULE ErrorMapping ---------------------------
(***************************************************************************)
(* How the MCP transport names a failure (internal/transport:              *)
(* error_mapping.go).  A Go error is the sequence of its layers, outermost *)
(* first, as errors.Is and errors.As walk them.  A named error is its type *)
(* and its code; messages and details are left out.                        *)
(***************************************************************************)
EXTENDS Integers, Sequences, FiniteSets, SequencesExt

\* The layers of a Go error.  A net.OpError is the name of its operation.  The timeout of a
\* net.Dialer says of itself that it is context.DeadlineExceeded.
NetOps == {"dial", "read", "write", "proxyconnect"}
Errnos == {"ECONNREFUSED", "ECONNRESET", "ENETUNREACH", "ETIMEDOUT", "EPIPE"}
Certificates == {"verification", "unknownAuthority", "certInvalid", "hostname"}

Deadlines == {"deadline", "dialTimeout"}

Has(chain, layers) == \E i \in DOMAIN chain : chain[i] \in layers

\* The place of the first layer that errors.As finds.
As(chain, layers) == CHOOSE i \in DOMAIN chain :
  /\ chain[i] \in layers
  /\ \A j \in 1 .. (i - 1) : chain[j] \notin layers

After(chain, i) == SubSeq(chain, i + 1, Len(chain))

\* What Timeout() answers of a layer that carries one itself.
TimesOut(chain, i) ==
  /\ i < Len(chain)
  /\ chain[i + 1] \in Deadlines \cup {"ioTimeout", "dnsTimeout", "ETIMEDOUT"}

Error(type, code) == [type |-> type, code |-> code]

mapDNSError(layer) ==
  Error("dns_error", IF layer = "dnsTimeout" THEN "DNS_TIMEOUT" ELSE "DNS_LOOKUP_FAILED")

mapSyscallError(errno) ==
  CASE errno = "ECONNREFUSED" -> Error("connect_error", "CONNECTION_REFUSED")
    [] errno = "ECONNRESET"   -> Error("connect_error", "CONNECTION_RESET")
    [] errno = "ENETUNREACH"  -> Error("connect_error", "NETWORK_UNREACHABLE")
    [] errno = "ETIMEDOUT"    -> Error("timeout", "CONNECT_TIMEOUT")
    [] OTHER                  -> Error("connect_error", "SYSCALL")

\* The text of an errno contains the words that the text search looks for.
Says(chain, words) ==
  Has(chain, {words} \cup CASE words = "connection refused" -> {"ECONNREFUSED"}
                            [] words = "connection reset"   -> {"ECONNRESET"}
                            [] OTHER                        -> {"ENETUNREACH"})

mapIOError(chain, i) ==
  IF Says(After(chain, i), "connection reset")
    THEN Error("connect_error", "CONNECTION_RESET")
    ELSE Error("connect_error", "IO_ERROR")

\* A dial error without errno or nested operation is searched for its text.
DialText(inner) ==
  IF Says(inner, "connection refused") THEN Error("connect_error", "CONNECTION_REFUSED")
  ELSE IF Says(inner, "connection reset") THEN Error("connect_error", "CONNECTION_RESET")
  ELSE IF Says(inner, "network is unreachable") THEN Error("connect_error", "NETWORK_UNREACHABLE")
  ELSE Error("connect_error", "CONNECT_FAILED")

\* Slip: a dial that timed out is reported like one that failed.
mapNetOpError_LateTimeout(chain) ==
  LET map[i \in DOMAIN chain] ==
        LET inner == After(chain, i) IN
        IF chain[i] \in {"read", "write"} THEN mapIOError(chain, i)
        ELSE Error("connect_error", "CONNECT_FAILED")
  IN map[As(chain, NetOps)]

\* mapNetOpError with mapDialError, which comes back to it for an operation
\* nested in the dial.
mapNetOpError(chain) ==
  LET map[i \in DOMAIN chain] ==
        LET inner == After(chain, i) IN
        IF TimesOut(chain, i)
          THEN Error("timeout", IF chain[i] = "dial" THEN "CONNECT_TIMEOUT" ELSE "REQUEST_TIMEOUT")
        ELSE IF chain[i] \in {"read", "write"} THEN mapIOError(chain, i)
        ELSE IF chain[i] # "dial" THEN Error("connect_error", "NET_ERROR")
        ELSE IF Has(inner, Errnos) THEN mapSyscallError(inner[As(inner, Errnos)])
        ELSE IF Has(inner, NetOps) THEN map[i + As(inner, NetOps)]
        ELSE DialText(inner)
  IN map[As(chain, NetOps)]

\* MapError.  Each url.Error that is no timeout is peeled off and what it
\* wraps is mapped: the tests made before hold of the inside as of the whole.
\* The test for a pointer to a tls.RecordHeaderError matches nothing that the
\* client reports, which is the value: its text is found further down.
MapError(chain) ==
  IF Has(chain, {"canceled"}) THEN Error("cancelled", "CANCELLED")
  ELSE IF Has(chain, Deadlines) THEN Error("timeout", "REQUEST_TIMEOUT")
  ELSE IF Has(chain, {"dns", "dnsTimeout"}) THEN mapDNSError(chain[As(chain, {"dns", "dnsTimeout"})])
  ELSE IF Has(chain, NetOps) THEN mapNetOpError(chain)
  ELSE IF \E i \in DOMAIN chain : chain[i] = "url" /\ TimesOut(chain, i)
    THEN Error("timeout", "REQUEST_TIMEOUT")
  ELSE IF Has(chain, {"tlsRecord"}) THEN Error("tls_error", "TLS_HANDSHAKE_FAILED")
  ELSE IF Has(chain, Certificates) THEN Error("tls_error", "TLS_CERTIFICATE_ERROR")
  ELSE IF Has(chain, {"tlsText"}) THEN Error("tls_error", "TLS_HANDSHAKE_FAILED")
  ELSE Error("unknown", "UNKNOWN")

MapHTTPStatusWithBody(status) ==
  CASE status = 400 -> Error("http_error", "HTTP_400")
    [] status = 401 -> Error("http_error", "HTTP_401")
    [] status = 403 -> Error("http_error", "HTTP_403")
    [] status = 404 -> Error("http_error", "HTTP_404")
    [] status = 429 -> Error("rate_limited", "HTTP_429")
    [] status >= 500 -> Error("http_error", "HTTP_5XX")
    [] OTHER        -> Error("http_error", "HTTP_OTHER")

MapJSONRPCError(code) ==
  Error("jsonrpc_error", CASE code = -32700 -> "JSONRPC_PARSE_ERROR"
                           [] code = -32600 -> "JSONRPC_INVALID_REQUEST"
                           [] code = -32601 -> "JSONRPC_METHOD_NOT_FOUND"
                           [] code = -32602 -> "JSONRPC_INVALID_PARAMS"
                           [] code = -32603 -> "JSONRPC_INTERNAL_ERROR"
                           [] OTHER         -> "JSONRPC_OTHER")

MapToolError == Error("tool_error", "TOOL_ERROR")
MapProtocolError == Error("protocol_error", "JSON_PARSE_ERROR")
NewStreamStallError == Error("stream_stall", "STREAM_STALL_TIMEOUT")
NewSSEDisconnectError == Error("connect_error", "SSE_DISCONNECT")

=============================================================================
