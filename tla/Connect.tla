------------------------------- MODULE Connect -------------------------------
(***************************************************************************)
(* The constructors around one connection (conn.go 158-337).  Dial and     *)
(* DialWithContext open a UDP socket of their own; ClientWithContext and   *)
(* ServerWithContext check the config and create the Conn (createConn,     *)
(* whose result is ConnRead's Init); handshakeConn derives the handshake   *)
(* config, on a server filters the cipher suites by its certificate, and   *)
(* runs handshake(), whose steps are ConnRead's.  Each check may fail with *)
(* an error, which is returned at once.                                    *)
(***************************************************************************)
EXTENDS ConnRead

CONSTANTS
  EntryPoint,  \* the function the application calls: "dial", "client", "server"
  ConfigErrs   \* the checks that can fail for the config given: a subset of
               \* {"listen", "check", "create", "config", "cert"}

ASSUME EntryPoint \in {"dial", "client", "server"}
ASSUME ConfigErrs \subseteq {"listen", "check", "create", "config", "cert"}

VARIABLES
  cpc,    \* the constructor's step; "error" once it returned early
  cret,   \* what it returned: "none", "conn" or "err"
  sock    \* the socket DialWithContext opened: "none" or "open"

cvars == <<cpc, cret, sock>>
allvars == <<vars, cvars>>

\* handshake() has been entered: the goroutines of ConnRead may run.
Handshaking == cpc \in {"handshake", "returned"}

\* nextConn.Close() is called by the first close() of the Conn.
SocketOpen == sock = "open" /\ ~closed

-----------------------------------------------------------------------------

\* DialWithContext: net.ListenUDP opens the socket the Conn will use.
Listen ==
  /\ cpc = "listen"
  /\ sock' = "open"
  /\ cpc' = "check"
  /\ UNCHANGED <<cret, vars>>

\* ClientWithContext (config nil, PSK without identity hint) and
\* ServerWithContext (config nil) pass their checks.
CheckConfig ==
  /\ cpc = "check"
  /\ cpc' = "create"
  /\ UNCHANGED <<cret, sock, vars>>

\* createConn: validateConfig and a non-nil nextConn pass; the Conn is built.
CreateConn ==
  /\ cpc = "create"
  /\ cpc' = "config"
  /\ UNCHANGED <<cret, sock, vars>>

\* handshakeConn: cipher suites and signature schemes parse.
HandshakeConfig ==
  /\ cpc = "config"
  /\ cpc' = IF EntryPoint = "server" THEN "cert" ELSE "handshake"
  /\ UNCHANGED <<cret, sock, vars>>

\* handshakeConn, server only: getCertificate succeeds or has no
\* certificate, and the cipher suites are filtered by it.
ServerCertificate ==
  /\ cpc = "cert"
  /\ cpc' = "handshake"
  /\ UNCHANGED <<cret, sock, vars>>

\* The current check fails: return nil, err, closing nothing.
ConstructorError ==
  /\ cpc \in ConfigErrs
  /\ cpc' = "error"
  /\ cret' = "err"
  /\ UNCHANGED <<sock, vars>>

\* handshake() returned: handshakeConn returns the Conn, or nil and the
\* error without closing the Conn.
HandshakeConnReturn ==
  /\ cpc = "handshake"
  /\ hsRet # "none"
  /\ cpc' = "returned"
  /\ cret' = IF hsRet = "nil" THEN "conn" ELSE "err"
  /\ UNCHANGED <<sock, vars>>

ConstructorStep ==
  \/ Listen
  \/ CheckConfig
  \/ CreateConn
  \/ HandshakeConfig
  \/ ServerCertificate
  \/ ConstructorError
  \/ HandshakeConnReturn

\* A step of the connection's goroutines once handshake() has started.
ConnStep == Handshaking /\ Next /\ UNCHANGED cvars

ConnectInit ==
  /\ Init
  /\ cpc = IF EntryPoint = "dial" THEN "listen" ELSE "check"
  /\ cret = "none"
  /\ sock = "none"

ConnectNext == ConstructorStep \/ ConnStep

ConnectSpec == ConnectInit /\ [][ConnectNext]_allvars

-----------------------------------------------------------------------------

\* When Dial fails, the UDP socket DialWithContext opened is closed: the
\* caller gets neither a Conn nor the socket, so nothing else can close it.
\* It must hold whichever step failed: a config check, createConn,
\* handshakeConn, or the handshake itself (through firstErr or the connect
\* context's deadline).
DialReleasesSocket == cret = "err" => ~SocketOpen

=============================================================================
