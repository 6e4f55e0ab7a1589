-------------------------------- MODULE Access --------------------------------
(***************************************************************************)
(* A workspace and the token server in front of it: memberships and keys   *)
(* change in the dashboard while tokens made from the keys are issued,     *)
(* refreshed and presented.                                                *)
(***************************************************************************)
EXTENDS Workspace

CONSTANTS Exchange, CodeTTL, AccessTTL, RefreshTTL, MaxTime, MaxCodes, MaxRestarts

ASSUME TTLAssumption == {CodeTTL, AccessTTL, RefreshTTL} \subseteq Nat
ASSUME ServerBoundsAssumption ==
    MaxTime \in Nat \ {0} /\ {MaxCodes, MaxRestarts} \subseteq Nat

VARIABLES time, codes, seen, tokens, exchange, gate, restarts, redeemed

server == <<time, codes, seen, tokens, exchange, gate, restarts, redeemed>>

Server == INSTANCE TokenServer

AccessInit == Init /\ Server!Init

AccessNext == \/ Next /\ UNCHANGED server
              \/ Server!Next /\ UNCHANGED <<request, cut>>

AccessSpec == AccessInit /\ [][AccessNext]_<<vars, server>>

(* Types of the token server; a code redeemed in this life of the server   *)
(* is remembered as long as it lasts.                                      *)
TokensTypeOK ==
    /\ Server!TypeOK
    /\ \A c \in DOMAIN codes :
          redeemed[c] > 0 /\ time <= codes[c].exp /\ restarts = 0 => c \in seen

(* A code gives tokens once (oauth.replayGuard).                           *)
RedeemedOnce == Server!RedeemedOnce

(* Sessions follow the memberships and keys of the moment (ResolveBearer). *)
AdmittedAsNow == Server!AdmittedAsNow
=============================================================================
