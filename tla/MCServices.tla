----------------------------- MODULE MCServices -----------------------------
(***************************************************************************)
(* The services above the IoManager, checked in one run.  They share no    *)
(* state, so each behaviour plays one scene and leaves the others alone.   *)
(***************************************************************************)
EXTENDS Hook, HttpPool, HttpSession, ByteArray, TcpServer, WebSocket, ConfigVar

VARIABLE scene

services == <<hookVars, poolVars, sessionVars, byteVars, serverVars, wsVars,
              configVars>>
vars == <<scene, services>>

Init ==
  /\ scene \in {"hook", "pool", "session", "bytes", "server", "ws", "config"}
  /\ HookInit /\ PoolInit /\ SessionInit /\ ByteInit /\ ServerInit /\ WsInit
  /\ ConfigInit
  /\ client => scene = "ws"     \* which end of a WebSocket matters there only

Next ==
  \/ /\ scene = "hook" /\ HookNext
     /\ UNCHANGED <<scene, poolVars, sessionVars, byteVars, serverVars, wsVars, configVars>>
  \/ /\ scene = "pool" /\ PoolNext
     /\ UNCHANGED <<scene, hookVars, sessionVars, byteVars, serverVars, wsVars, configVars>>
  \/ /\ scene = "session" /\ SessionNext
     /\ UNCHANGED <<scene, hookVars, poolVars, byteVars, serverVars, wsVars, configVars>>
  \/ /\ scene = "bytes" /\ ByteNext
     /\ UNCHANGED <<scene, hookVars, poolVars, sessionVars, serverVars, wsVars, configVars>>
  \/ /\ scene = "server" /\ ServerNext
     /\ UNCHANGED <<scene, hookVars, poolVars, sessionVars, byteVars, wsVars, configVars>>
  \/ /\ scene = "ws" /\ WsNext
     /\ UNCHANGED <<scene, hookVars, poolVars, sessionVars, byteVars, serverVars, configVars>>
  \/ /\ scene = "config" /\ ConfigNext
     /\ UNCHANGED <<scene, hookVars, poolVars, sessionVars, byteVars, serverVars, wsVars>>

\* In their initial states neither the callers, the session nor the server have a
\* step that fairness would ask for, so it binds only the scene that is played.
Spec == Init /\ [][Next]_vars /\ HookFair /\ SessionFair /\ ServerFair

\* Types of the variables of the seven modules.
TypeOK ==
  /\ HookTypes /\ PoolTypes /\ SessionTypes /\ ByteTypes /\ ServerTypes /\ WsTypes
  /\ ConfigTypes
=============================================================================
