----------------------------- MODULE HttpsFetch -----------------------------
(***************************************************************************)
(* The HTTP(S) fetch client of src/https/client.c, one sequential run of   *)
(* the program: parse the URL, resolve, connect, then fetch_via_https or   *)
(* fetch_via_http, and main()'s exit status.  The network, the resolver,   *)
(* OpenSSL and the file system are the environment: each call that can    *)
(* fail is a choice between its outcomes.  A URL is a sequence of          *)
(* characters: a scheme prefix ("http://", "https://") taken as one        *)
(* symbol, "h" for any host or path letter, ":", "/" and "0".."9".         *)
(* The response is a sequence of "t" (text), "r" (CR) and "n" (LF).        *)
(***************************************************************************)
EXTENDS Integers, Sequences, SequencesExt

CONSTANTS
    Urls,           \* the URLs argv[1] may hold
    CertKinds,      \* what the server presents: "Trusted", "Untrusted", "None"
    Header,         \* the response header, ending in CR LF CR LF
    Body,           \* the response body of a GET
    Buf,            \* BUFFER_SIZE, scaled with the response
    ReturnRegister  \* values a function that falls off its end may return

ASSUME Buf \in Nat \ {0}

EXIT_SUCCESS == 0
EXIT_FAILURE == 1

VARIABLES
    pc,           \* main()'s control point, inside the fetch function once called
    url,          \* argv[1]
    headerOnly,   \* the -h flag
    target,       \* what parse_url returned
    cert,         \* the certificate the server presented in the handshake
    ret,          \* the value the callee returned
    ctxRefs,      \* the SSL_CTX's reference count
    pem,          \* missing-cert.pem has been written
    sent,         \* the request went out: "None", "Plain" or "Tls"
    rest,         \* the response bytes not yet read
    printed,      \* bytes putchar'ed (-h)
    written,      \* bytes fwrite'n to output.dat
    status        \* main()'s exit status

vars == <<pc, url, headerOnly, target, cert, ret, ctxRefs, pem, sent, rest,
          printed, written, status>>

CRLFCRLF == <<"r", "n", "r", "n">>

(***************************************************************************)
(* parse_url, lines 16-72.                                                 *)
(***************************************************************************)

\* The value of a decimal digit character, -1 for any other character.
DigitValue(c) ==
    SelectInSeq(<<"0", "1", "2", "3", "4", "5", "6", "7", "8", "9">>,
                LAMBDA d : d = c) - 1

\* atoi: the value of the leading decimal digits, 0 if there are none.
RECURSIVE AtoiFrom(_, _)
AtoiFrom(s, acc) ==
    IF s # <<>> /\ DigitValue(Head(s)) >= 0
    THEN AtoiFrom(Tail(s), 10 * acc + DigitValue(Head(s)))
    ELSE acc
atoi(s) == AtoiFrom(s, 0)

\* Lines 16-72: the scheme prefix sets scheme and default port; the first
\* '/' must exist; a ':' before it gives the port by atoi; the host is
\* what lies before; scheme and port must not contradict.
parse_url(u) ==
    LET http  == u # <<>> /\ Head(u) = "http://"
        https == u # <<>> /\ Head(u) = "https://"
        scheme == IF http THEN "http" ELSE "https"
        start == IF http \/ https THEN Tail(u) ELSE u
        slash == SelectInSeq(start, LAMBDA c : c = "/")
        colon == SelectInSeq(start, LAMBDA c : c = ":")
        hasPort == colon # 0 /\ colon < slash
        port == IF hasPort THEN atoi(SubSeq(start, colon + 1, Len(start)))
                ELSE IF http THEN 80 ELSE 443
    IN  IF \/ slash = 0
           \/ hasPort /\ port <= 0
           \/ port = 443 /\ scheme = "http"
           \/ port = 80 /\ scheme = "https"
        THEN [ok |-> FALSE]
        ELSE [ok |-> TRUE, scheme |-> scheme, port |-> port,
              ip |-> SubSeq(start, 1, (IF hasPort THEN colon ELSE slash) - 1),
              path |-> SubSeq(start, slash + 1, Len(start))]

\* The response the server sends: HEAD gets the header only.
Response(h) == IF h THEN Header ELSE Header \o Body

\* The header-only scan of lines 200-206 (244-250) over one buffer: the
\* first index i > 3 (0-based) where bytes i-3..i are CR LF CR LF, or 0.
HeaderEndIn(b) ==
    SelectInSeq([i \in 1..Len(b) |-> i],
                LAMBDA i : i > 4 /\ SubSeq(b, i - 3, i) = CRLFCRLF)

Init ==
    /\ pc = "Parse"
    /\ url \in Urls
    /\ headerOnly \in BOOLEAN
    /\ target = [ok |-> FALSE]
    /\ cert = "None"
    /\ ret = 0
    /\ ctxRefs = 0
    /\ pem = FALSE
    /\ sent = "None"
    /\ rest = <<>>
    /\ printed = <<>>
    /\ written = <<>>
    /\ status = EXIT_SUCCESS

Exit(code) == pc' = "Exit" /\ status' = code

(***************************************************************************)
(* main(), lines 263-350.                                                  *)
(***************************************************************************)

\* Lines 263-280: parse argv; a URL parse_url rejects ends the program.
MainParse ==
    /\ pc = "Parse"
    /\ target' = parse_url(url)
    /\ IF target'.ok THEN pc' = "Connect" /\ UNCHANGED status
                     ELSE Exit(EXIT_FAILURE)
    /\ UNCHANGED <<url, headerOnly, cert, ret, ctxRefs, pem, sent, rest,
                   printed, written>>

\* Lines 282-325: getaddrinfo, socket and connect, each of which may fail
\* and end the program; then the request is built and the fetch function
\* for the scheme is called.  The server's response is fixed by the
\* request's method.
MainConnect ==
    /\ pc = "Connect"
    /\ \E ok \in BOOLEAN :
          IF ok THEN /\ pc' = IF target.scheme = "https" THEN "Handshake" ELSE "HttpSend"
                     /\ rest' = Response(headerOnly)
                     /\ UNCHANGED status
                ELSE /\ Exit(EXIT_FAILURE)
                     /\ UNCHANGED rest
    /\ UNCHANGED <<url, headerOnly, target, cert, ret, ctxRefs, pem, sent,
                   printed, written>>

\* Lines 327-349: "if (fetch(...) == -1)" exit with failure, otherwise
\* free and return EXIT_SUCCESS.
MainReturn ==
    /\ pc = "Return"
    /\ Exit(IF ret = -1 THEN EXIT_FAILURE ELSE EXIT_SUCCESS)
    /\ UNCHANGED <<url, headerOnly, target, cert, ret, ctxRefs, pem, sent, rest,
                   printed, written>>

(***************************************************************************)
(* fetch_via_https, lines 146-219, with validate_certificate (118-145)     *)
(* and add_missing_certificate (98-117).                                   *)
(***************************************************************************)

\* Lines 146-162, 73-97: create the context (exit on failure), SSL_new
\* (a second reference to the context), SSL_connect.  A failed handshake
\* frees both and returns EXIT_FAILURE.
HttpsConnect ==
    /\ pc = "Handshake"
    /\ \/ /\ Exit(EXIT_FAILURE)
          /\ UNCHANGED <<cert, ret, ctxRefs>>
       \/ /\ ctxRefs' = 0
          /\ ret' = EXIT_FAILURE
          /\ pc' = "Return"
          /\ UNCHANGED <<cert, status>>
       \/ /\ ctxRefs' = 2
          /\ cert' \in CertKinds
          /\ pc' = "Validate"
          /\ UNCHANGED <<ret, status>>
    /\ UNCHANGED <<url, headerOnly, target, pem, sent, rest, printed, written>>

\* Lines 118-145: no certificate: EXIT_FAILURE.  A failed verification
\* writes the chain's intermediates to missing-cert.pem and loads them,
\* then reads the same stored verify result again: it fails again, the
\* context is freed and EXIT_FAILURE returned.  A verified certificate
\* falls off the end of the function.  Each outcome is the value returned
\* and the number of SSL_CTX_free calls made.
validate_certificate ==
    CASE cert = "None"    -> {[v |-> EXIT_FAILURE, frees |-> 0]}
      [] cert = "Trusted" -> {[v |-> r, frees |-> 0] : r \in ReturnRegister}
      [] OTHER            -> {[v |-> EXIT_FAILURE, frees |-> 1]}

\* Lines 164-171: "if (validate_certificate(...) == -1)" shut down, free
\* and return EXIT_FAILURE; any other value goes on to the request.
HttpsValidate ==
    /\ pc = "Validate"
    /\ \E o \in validate_certificate :
          IF o.v = -1
          THEN /\ ctxRefs' = ctxRefs - o.frees - 2
               /\ ret' = EXIT_FAILURE
               /\ pc' = "Return"
          ELSE /\ ctxRefs' = ctxRefs - o.frees
               /\ pc' = "TlsWrite"
               /\ UNCHANGED ret
    /\ pem' \in IF cert = "Untrusted" THEN {pem, TRUE} ELSE {pem}
    /\ UNCHANGED <<url, headerOnly, target, cert, sent, rest, printed, written, status>>

\* Lines 173-190: SSL_write the request (on failure shut down, free,
\* EXIT_FAILURE), then open output.dat unless -h (on failure return
\* EXIT_FAILURE, freeing nothing).
HttpsWrite ==
    /\ pc = "TlsWrite"
    /\ \/ /\ ctxRefs' = ctxRefs - 2
          /\ ret' = EXIT_FAILURE
          /\ pc' = "Return"
          /\ UNCHANGED sent
       \/ /\ sent' = "Tls"
          /\ \E opened \in IF headerOnly THEN {TRUE} ELSE BOOLEAN :
                IF opened THEN pc' = "TlsRead" /\ UNCHANGED ret
                          ELSE pc' = "Return" /\ ret' = EXIT_FAILURE
          /\ UNCHANGED ctxRefs
    /\ UNCHANGED <<url, headerOnly, target, cert, pem, rest, printed, written, status>>

\* One read of n bytes, lines 198-211 (242-255): with -h print up to the
\* end of the header if this buffer holds it, else write all to output.dat.
Consume(n) ==
    LET b == SubSeq(rest, 1, n)
        e == HeaderEndIn(b)
    IN  /\ rest' = SubSeq(rest, n + 1, Len(rest))
        /\ IF headerOnly
           THEN /\ printed' = printed \o SubSeq(b, 1, IF e > 0 THEN e ELSE n)
                /\ UNCHANGED written
           ELSE /\ written' = written \o b
                /\ UNCHANGED printed

\* The header-only scan found the end of the header in this buffer.
HeaderDone(n) == headerOnly /\ HeaderEndIn(SubSeq(rest, 1, n)) > 0

\* Lines 198-218: SSL_read returns n > 0 bytes; or 0 or less once the
\* server has closed (Connection: close) or on an error; after the loop
\* (or the -h break) fclose, SSL_shutdown, SSL_free, SSL_CTX_free, and
\* fall off the end of the function.
HttpsClosed ==
    /\ ctxRefs' = ctxRefs - 2
    /\ pc' = "Return"
    /\ ret' \in ReturnRegister

HttpsRead ==
    /\ pc = "TlsRead"
    /\ \/ \E n \in 1..Min({Len(rest), Buf}) :
             /\ Consume(n)
             /\ IF HeaderDone(n) THEN HttpsClosed ELSE UNCHANGED <<ctxRefs, pc, ret>>
       \/ /\ HttpsClosed
          /\ UNCHANGED <<rest, printed, written>>
    /\ UNCHANGED <<url, headerOnly, target, cert, pem, sent, status>>

(***************************************************************************)
(* fetch_via_http, lines 220-261.                                          *)
(***************************************************************************)

\* Lines 220-234: send the request (on failure EXIT_FAILURE), then open
\* output.dat unless -h (on failure EXIT_FAILURE).
HttpSend ==
    /\ pc = "HttpSend"
    /\ \/ pc' = "Return" /\ ret' = EXIT_FAILURE /\ UNCHANGED sent
       \/ /\ sent' = "Plain"
          /\ \E opened \in IF headerOnly THEN {TRUE} ELSE BOOLEAN :
                IF opened THEN pc' = "HttpRecv" /\ UNCHANGED ret
                          ELSE pc' = "Return" /\ ret' = EXIT_FAILURE
    /\ UNCHANGED <<url, headerOnly, target, cert, ctxRefs, pem, rest, printed,
                   written, status>>

\* Lines 242-261: recv returns n > 0 bytes, or 0 or less at the server's
\* close or on an error; then fclose and fall off the end.
HttpRecv ==
    /\ pc = "HttpRecv"
    /\ \/ \E n \in 1..Min({Len(rest), Buf}) :
             /\ Consume(n)
             /\ IF HeaderDone(n) THEN pc' = "Return" /\ ret' \in ReturnRegister
                                 ELSE UNCHANGED <<pc, ret>>
       \/ /\ pc' = "Return" /\ ret' \in ReturnRegister
          /\ UNCHANGED <<rest, printed, written>>
    /\ UNCHANGED <<url, headerOnly, target, cert, ctxRefs, pem, sent, status>>

-----------------------------------------------------------------------------
Next ==
    \/ MainParse \/ MainConnect \/ MainReturn
    \/ HttpsConnect \/ HttpsValidate \/ HttpsWrite \/ HttpsRead
    \/ HttpSend \/ HttpRecv

Spec == Init /\ [][Next]_vars

\* The request, and with it the response written to output.dat, goes over
\* TLS only to a server whose certificate verified: validate_certificate's
\* failure must stop fetch_via_https before SSL_write (lines 164-173).
RequestOnlyOverVerifiedTls == sent = "Tls" => cert = "Trusted"

====
