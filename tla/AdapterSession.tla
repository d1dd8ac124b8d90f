--------------------------- MODULE AdapterSession ---------------------------
(***************************************************************************)
(* What package core promises every platform adapter.  An Adapter is one   *)
(* shared object with one live session at a time: core calls Connect and   *)
(* Disconnect on it strictly alternately, never two at once, and a         *)
(* Disconnect made on behalf of a connection ends that connection's own    *)
(* session and no newer one.  Lifecycle implements this module.            *)
(***************************************************************************)
CONSTANTS Procs,   \* goroutines that may call the adapter
          Conns,   \* connection identities
          NoConn   \* "no session"

VARIABLES session,       \* the live session, or NoConn
          connecting,    \* goroutines inside adapter.Connect
          disconnecting  \* <<goroutine, connection>> pairs inside adapter.Disconnect

sessionVars == <<session, connecting, disconnecting>>

SessionInit == /\ session = NoConn
               /\ connecting = {}
               /\ disconnecting = {}

Quiet == connecting = {} /\ disconnecting = {}

BeginConnect(p) == /\ Quiet
                   /\ session = NoConn
                   /\ connecting' = {p}
                   /\ UNCHANGED <<session, disconnecting>>

\* adapter.Connect returns: it installed a session, or failed and left none.
EndConnect(p) == /\ connecting = {p}
                 /\ connecting' = {}
                 /\ session' \in Conns \cup {NoConn}
                 /\ UNCHANGED disconnecting

BeginDisconnect(p) == /\ Quiet
                      /\ session # NoConn
                      /\ disconnecting' = {<<p, session>>}
                      /\ UNCHANGED <<session, connecting>>

EndDisconnect(p) == /\ disconnecting = {<<p, session>>}
                    /\ disconnecting' = {}
                    /\ session' = NoConn
                    /\ UNCHANGED connecting

SessionNext == \E p \in Procs : \/ BeginConnect(p)
                                \/ EndConnect(p)
                                \/ BeginDisconnect(p)
                                \/ EndDisconnect(p)

SessionSpec == SessionInit /\ [][SessionNext]_sessionVars
=============================================================================
