\* The URLs of MCHttpsFetch, a server that presents a trusted or an
\* untrusted certificate (OpenSSL's default cipher list excludes the
\* anonymous suites that present none), a 5-byte header read in buffers
\* of up to 3 bytes (BUFFER_SIZE 1024 scaled with it, so that a read may
\* split CR LF CR LF), and falling off a function's end returning 0.
CONSTANTS
    Urls <- CommandLines
    CertKinds = {"Trusted", "Untrusted"}
    Header <- HeadReply
    Body <- BodyReply
    Buf = 3
    ReturnRegister = {0}

SPECIFICATION Spec

INVARIANT RequestOnlyOverVerifiedTls

\* The program ends: main() returns.
CHECK_DEADLOCK FALSE
