-------------------------------- MODULE Users ---------------------------------
(***************************************************************************)
(* The table users and who may do what: register, login and check-status   *)
(* of AuthService, the guards of the HTTP routes, the handshake of a       *)
(* technician's socket, and the two console scripts for administrators.    *)
(*                                                                         *)
(* A call is a process, of the backend or of a console.  One action is one *)
(* statement of PostgreSQL with the code that runs until the next one.     *)
(* Passwords are left out: a login may or may not know the right one.      *)
(***************************************************************************)
EXTENDS FiniteSets

CONSTANTS
    Users,      \* the ids of rows, and of tokens
    Spellings,  \* e-mail addresses as they are typed: <<address, "lower" or "mixed">>
    RoleSets,   \* the roles somebody may be given
    Calls,
    None

\* ValidRoles
Roles == {"admin", "tecnico", "sales", "user"}

ASSUME UsersAssumption ==
    /\ None \notin Users
    /\ \A sp \in Spellings : <<sp[1], "lower">> \in Spellings
    /\ None \notin Spellings
    /\ RoleSets \subseteq SUBSET Roles

VARIABLES
    user,    \* the committed rows
    tokens,  \* the users with a JWT that has not expired
    call,    \* the calls and scripts under way
    barred   \* history: the calls that had no right to act at any time since they began

usersVars == <<user, tokens, call, barred>>

NoUser == [email |-> None, roles |-> {}, active |-> FALSE]

\* Nobody: the arguments of a call that has none.
NoCall == [pc |-> "idle", kind |-> "none", actor |-> None, email |-> None,
           roles |-> {}]

Kinds == {"none", "register", "createDevice", "connect", "checkStatus", "bootstrap", "reset"}
Scripts == {"bootstrap", "reset"}

Exists(u) == user[u] # NoUser
Registered == {u \in Users : Exists(u)}

At(c, pc) == call[c].pc = pc
Goto(c, pc) == call' = [call EXCEPT ![c].pc = pc]
Become(c, new) == call' = [call EXCEPT ![c] = new]
Done(c) == Become(c, NoCall)

\* toLocaleLowerCase().trim()
Normal(sp) == <<sp[1], "lower">>

Fault_Stored(sp) == sp

\* The e-mail that a new row gets: @BeforeInsert normalises it.
Stored(sp) == Normal(sp)

Fault_Admins == {u \in Users : "admin" \in user[u].roles /\ user[u].active}

\* roles: ArrayContains([admin])
Admins == {u \in Users : "admin" \in user[u].roles}

-----------------------------------------------------------------------------
(* What a token is good for.                                               *)

Fault_Valid(u) == Exists(u)

\* validateJwtPayload: the row is read at every use of a token.
Valid(u) == Exists(u) /\ user[u].active

\* The roles named by @Auth of a route, and TECHNICIAN_SOCKET_ROLES.
Allowed(kind) == IF kind = "register" THEN {"admin"} ELSE {"admin", "tecnico"}

\* Routes that name no role are open to everybody with a token.
HasRole(u, kind) == kind = "checkStatus" \/ user[u].roles \cap Allowed(kind) # {}

\* A request, or a handshake at /technicians, with the token of u.
StartRequest(c, u, kind, sp, roles) ==
    /\ At(c, "idle")
    /\ u \in tokens
    /\ Become(c, [NoCall EXCEPT !.pc = "authorise", !.kind = kind, !.actor = u,
                                !.email = sp, !.roles = roles])
    /\ UNCHANGED <<user, tokens>>

\* Where the handler of an admitted request begins.
HandlerOf(kind) ==
    CASE kind = "register"     -> "insert"
      [] kind = "createDevice" -> "create"
      [] kind = "connect"      -> "enter"
      [] kind = "checkStatus"  -> "renew"

\* JwtStrategy with UserRoleGuard, or the middleware of the namespace.  The
\* handlers of the first two take no user.
Authorise(c) ==
    LET u == call[c].actor  kind == call[c].kind IN
    /\ At(c, "authorise")
    /\ IF Valid(u) /\ HasRole(u, kind)
         THEN Become(c, [call[c] EXCEPT
                !.pc = HandlerOf(kind),
                !.actor = IF kind \in {"register", "createDevice"} THEN None ELSE u])
         ELSE Done(c)
    /\ UNCHANGED <<user, tokens>>

\* handleConnection: the socket enters its rooms.  Signaling goes on from here.
Enter(c) ==
    /\ At(c, "enter")
    /\ Done(c)
    /\ UNCHANGED <<user, tokens>>

\* checkAuthStatus answers with a new token.
Renew(c) ==
    /\ At(c, "renew")
    /\ tokens' = tokens \cup {call[c].actor}
    /\ Done(c)
    /\ UNCHANGED user

\* loginUser, with the right password.  It looks for the e-mail as it was typed.
Login(sp) ==
    /\ \E u \in Registered :
         /\ user[u].email = sp
         /\ user[u].active
         /\ tokens' = tokens \cup {u}
    /\ UNCHANGED <<user, call>>

-----------------------------------------------------------------------------
(* New rows.                                                               *)

\* save(): the unique index makes the INSERT wait for another one of the same
\* e-mail to be committed, and fails it if there is a row with it.
Insert(c) ==
    LET email == Stored(call[c].email) IN
    /\ At(c, "insert")
    /\ \A b \in Calls : At(b, "commit") => Stored(call[b].email) # email
    /\ IF \E u \in Users : user[u].email = email THEN Done(c) ELSE Goto(c, "commit")
    /\ UNCHANGED <<user, tokens>>

\* Without explicit roles the column has its default, and whoever registered
\* the user is answered with a token of the user.
Commit(c) ==
    /\ At(c, "commit")
    /\ \E u \in Users :                                   \* BOUND: an id is left
         /\ ~Exists(u)
         /\ user' = [user EXCEPT ![u] =
                       [email |-> Stored(call[c].email),
                        roles |-> IF call[c].roles = {} THEN {"user"} ELSE call[c].roles,
                        active |-> TRUE]]
         /\ tokens' = IF call[c].kind = "register" THEN tokens \cup {u} ELSE tokens
    /\ Done(c)

-----------------------------------------------------------------------------
(* The scripts.  They read the e-mail from the environment and normalise it. *)

StartBootstrap(c, sp) ==
    /\ At(c, "idle")
    /\ Become(c, [NoCall EXCEPT !.pc = "count", !.kind = "bootstrap",
                                !.email = Normal(sp), !.roles = {"admin"}])
    /\ UNCHANGED <<user, tokens>>

CountAdmins(c) ==
    /\ At(c, "count")
    /\ IF Admins # {} THEN Done(c) ELSE Goto(c, "findUser")
    /\ UNCHANGED <<user, tokens>>

FindUser(c) ==
    /\ At(c, "findUser")
    /\ IF \E u \in Users : user[u].email = call[c].email THEN Done(c) ELSE Goto(c, "insert")
    /\ UNCHANGED <<user, tokens>>

StartReset(c, sp) ==
    /\ At(c, "idle")
    /\ Become(c, [NoCall EXCEPT !.pc = "findAdmin", !.kind = "reset", !.email = Normal(sp)])
    /\ UNCHANGED <<user, tokens>>

FindAdmin(c) ==
    /\ At(c, "findAdmin")
    /\ \/ \E u \in Admins :
            /\ user[u].email = call[c].email
            /\ Become(c, [call[c] EXCEPT !.pc = "update", !.actor = u])
       \/ /\ \A u \in Admins : user[u].email # call[c].email
          /\ Done(c)
    /\ UNCHANGED <<user, tokens>>

\* update() by id, of the password only: nothing of what the model keeps.
ResetPassword(c) ==
    /\ At(c, "update")
    /\ Done(c)
    /\ UNCHANGED <<user, tokens>>

-----------------------------------------------------------------------------
(* What happens to them from outside.                                      *)

\* A statement throws, and with it the handler or the script.
QueryFails(c) ==
    /\ ~At(c, "idle") /\ ~At(c, "create")
    /\ Done(c)
    /\ UNCHANGED <<user, tokens>>

\* Roles and isActive are administrative decisions that no route takes: they
\* are made on the table.
Administers(u, roles, active) ==
    /\ Exists(u)
    /\ user' = [user EXCEPT ![u].roles = roles, ![u].active = active]
    /\ UNCHANGED <<tokens, call>>

TokenExpires(u) ==
    /\ u \in tokens
    /\ tokens' = tokens \ {u}
    /\ UNCHANGED <<user, call>>

\* What the caller needs for what it asks, here and now.
Entitled(c) ==
    LET kind == call[c].kind
        admins == {u \in Users : "admin" \in user[u].roles} IN
    CASE kind = "bootstrap" -> admins = {}
      [] kind = "reset"     -> \E u \in admins : user[u].email = call[c].email
      [] OTHER              -> \E u \in Users : /\ u = call[c].actor
                                                /\ user[u].active
                                                /\ HasRole(u, kind)

\* History is kept with every step.
Bars ==
    barred' = {c \in Calls : /\ call'[c].pc # "idle"
                             /\ At(c, "idle") \/ c \in barred
                             /\ ~Entitled(c)'}

UsersInit ==
    /\ user = [u \in Users |-> NoUser]
    /\ tokens = {}
    /\ call = [c \in Calls |-> NoCall]
    /\ barred = {}

UsersContinue(c) ==
    \/ Authorise(c) \/ Enter(c) \/ Renew(c) \/ Insert(c) \/ Commit(c)
    \/ CountAdmins(c) \/ FindUser(c) \/ FindAdmin(c) \/ ResetPassword(c)

UsersStep ==
    \/ \E c \in Calls :
         \/ \E u \in Users :
              \/ \E sp \in Spellings, roles \in RoleSets \cup {{}} :
                   StartRequest(c, u, "register", sp, roles)
              \/ \E kind \in {"createDevice", "connect", "checkStatus"} :
                   StartRequest(c, u, kind, None, {})
         \/ \E sp \in Spellings : StartBootstrap(c, sp) \/ StartReset(c, sp)
         \/ UsersContinue(c)
         \/ QueryFails(c)
    \/ \E sp \in Spellings : Login(sp)
    \/ \E u \in Users :
         \/ TokenExpires(u)
         \/ \E roles \in RoleSets, active \in BOOLEAN : Administers(u, roles, active)
=============================================================================
