----------------------------- MODULE AccessControl -----------------------------
(***************************************************************************)
(* Who may call what: FirebaseAuthMiddleware and RequireRole               *)
(* (internal/delivery/http/middleware), VerifyIDToken                      *)
(* (internal/repository/firebase), the routes of SetupRouter and           *)
(* canAccessOrder of the order handler.  A decision per request, without   *)
(* state; OrderStatusStream and Startup put it to use.                     *)
(***************************************************************************)
CONSTANTS Users, NoUser

ASSUME NoUserAssumption == NoUser \notin Users

Staff == {"admin", "seller"}

(***************************************************************************)
(* A token names a user, or nobody, and a role: the role claim of a signed *)
(* Firebase token, of whatever spelling, or the "admin:" before the user   *)
(* id of a development token, which is plain text.                         *)
(***************************************************************************)
Tokens == [uid : Users \cup {NoUser}, role : Staff \cup {"none", "unknown"}, signed : BOOLEAN]

(* The Authorization header, by what strings.Fields makes of it.            *)
Headers == [form : {"missing", "malformed", "bearer"}, token : Tokens]

-----------------------------------------------------------------------------
Rejected == [uid |-> NoUser, role |-> "none"]

(* VerifyIDToken: in development mode the text is believed; otherwise the   *)
(* Firebase client checks the signature, and a role that is not one of the  *)
(* two staff roles is a customer's.                                         *)
DevelopmentClaims(token) ==
    IF token.uid = NoUser THEN Rejected
    ELSE [uid |-> token.uid, role |-> IF token.role = "admin" THEN "admin" ELSE "customer"]

FirebaseClaims(token) ==
    IF token.signed /\ token.uid # NoUser
    THEN [uid |-> token.uid, role |-> IF token.role \in Staff THEN token.role ELSE "customer"]
    ELSE Rejected

VerifyIDToken(mode, token) ==
    IF mode = "development" THEN DevelopmentClaims(token) ELSE FirebaseClaims(token)

(* What FirebaseAuthMiddleware stores in the request's Locals, if anything. *)
Authenticate(mode, header) ==
    IF header.form = "bearer" THEN VerifyIDToken(mode, header.token) ELSE Rejected

(* VerifyIDToken's roles are in lower case and trimmed already.             *)
RequireRole(roles, claims) == claims.role \in roles

(* The routes, by the middleware SetupRouter puts before their handlers.    *)
PublicRoutes == {"ListProducts", "GetProductByID", "GetRedisStock"}
LoginRoutes  == {"CreateFlashSaleOrder", "GetOrderByID", "StreamOrderStatus"}
StaffRoutes  == {"CreateProduct", "PrewarmStock", "GetS3UploadURL"}
Routes       == PublicRoutes \cup LoginRoutes \cup StaffRoutes

Admits(mode, route, header) ==
    LET claims == Authenticate(mode, header)
    IN  /\ route \notin PublicRoutes => claims # Rejected
        /\ route \in StaffRoutes => RequireRole(Staff, claims)

(* canAccessOrder, of claims the middleware let through.                    *)
canAccessOrder(claims, owner) ==
    \/ claims.role \in Staff
    \/ claims.uid # NoUser /\ claims.uid = owner
=============================================================================
