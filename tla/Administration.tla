---------------------------- MODULE Administration ----------------------------
(***************************************************************************)
(* Users and the devices they register: a request that the guard has       *)
(* admitted goes on in DevicesService.create.                              *)
(***************************************************************************)
EXTENDS Users, Naturals

CONSTANTS Devices, PublicIds, MaxAttempts

ASSUME RegistryAssumption == MaxAttempts \in Nat \ {0} /\ None \notin PublicIds

VARIABLES publicId, creation

Registry == INSTANCE DeviceRegistry

vars == <<user, tokens, call, barred, publicId, creation>>

\* POST /devices reaches the service.
CreateDevice(c) ==
    /\ At(c, "create")
    /\ \E p \in PublicIds : Registry!StartCreate(c, p)
    /\ UNCHANGED <<user, tokens, call>>

\* The call is answered when the service is done.
CreateContinues(c) ==
    /\ Registry!RegistryContinue(c)
    /\ IF creation'[c].pc = "idle" THEN Done(c) ELSE UNCHANGED call
    /\ UNCHANGED <<user, tokens>>

Init == UsersInit /\ Registry!RegistryInit

Step ==
    \/ UsersStep /\ UNCHANGED <<publicId, creation>>
    \/ \E c \in Calls : CreateDevice(c) \/ CreateContinues(c)

Next == Step /\ Bars

Spec == Init /\ [][Next]_vars

-----------------------------------------------------------------------------
(* Properties.                                                             *)

\* Every variable keeps its shape, and a device is being created only for a
\* request that the guard has admitted, in MaxAttempts attempts at most.
TypeOK ==
    /\ user \in [Users -> [email : Spellings \cup {None}, active : BOOLEAN,
                           roles : SUBSET Roles]]
    /\ tokens \subseteq Registered
    /\ call \in [Calls -> [pc : {"idle", "authorise", "create", "enter", "renew", "insert",
                                 "commit", "count", "findUser", "findAdmin", "update"},
                           kind : Kinds, actor : Users \cup {None},
                           email : Spellings \cup {None},
                           roles : SUBSET Roles]]
    /\ barred \subseteq Calls
    /\ Registry!RegistryTypeOK
    /\ \A c \in Calls : creation[c] # Registry!NoCreation => At(c, "create")

\* Nobody has two accounts: whatever capitals an address is typed with, and
\* however register and bootstrap race, there is one row for it, and it is
\* the row that the scripts look for.
EmailsAreUnique ==
    /\ \A u \in Registered : user[u].email = Normal(user[u].email)
    /\ \A u, v \in Registered : Normal(user[u].email) = Normal(user[v].email) => u = v

\* A token is worth what the row says when it is used: a request or handshake
\* of somebody who has had no access since it arrived gets past neither
\* JwtStrategy nor the guards, be the token good or renewed.  (What was admitted
\* before goes on.)
OutcastsAreRefused ==
    \A c \in barred : call[c].kind \notin Scripts => At(c, "authorise")

\* Once there is an administrator, active or not, a bootstrap begun after that
\* does nothing; nor does a reset for an address that has not been an
\* administrator's while it ran.  (Two bootstraps that both count none may both
\* go on, which is why this is not about the number of administrators.)
LateScriptsDoNothing ==
    \A c \in barred : call[c].kind \in Scripts => At(c, "count") \/ At(c, "findAdmin")

\* A create makes one device at most: it is tried again after a collision, and
\* never after an error that may have come when the row was already there.
OneDevicePerCreate == Registry!OneDeviceEach
=============================================================================
