------------------------ MODULE Administration_proofs -------------------------
(***************************************************************************)
(* Proofs about Administration, for any number of users, addresses, calls, *)
(* devices and public ids.                                                 *)
(***************************************************************************)
EXTENDS Administration, TLAPS

-----------------------------------------------------------------------------
(* The inductive invariant.                                                *)

UserType == [email : Spellings \cup {None}, active : BOOLEAN, roles : SUBSET Roles]

CallType == [pc : {"idle", "authorise", "create", "enter", "renew", "insert",
                   "commit", "count", "findUser", "findAdmin", "update"},
             kind : Kinds, actor : Users \cup {None},
             email : Spellings \cup {None}, roles : SUBSET Roles]

UsersType ==
    /\ user \in [Users -> UserType]
    /\ tokens \subseteq Registered
    /\ call \in [Calls -> CallType]

\* What a call carries fits the point it has reached.
CallOK(c) ==
    /\ At(c, "authorise") => /\ call[c].kind \notin Scripts \cup {"none"}
                             /\ call[c].kind = "register" => call[c].email \in Spellings
    /\ At(c, "authorise") \/ At(c, "renew") => call[c].actor \in Registered
    /\ At(c, "insert") \/ At(c, "commit") => call[c].email \in Spellings
    /\ At(c, "count") => call[c].kind = "bootstrap"
    /\ At(c, "findAdmin") => call[c].kind = "reset"
    /\ At(c, "count") \/ At(c, "findUser") => call[c].email \in Spellings
    /\ At(c, "update") => call[c].actor \in Users

RowsOK ==
    /\ \A u \in Registered : user[u].email \in Spellings
    /\ EmailsAreUnique

\* An INSERT that has passed the index is alone with its address.
InsertedAlone ==
    \A c \in Calls : At(c, "commit") =>
      /\ \A u \in Users : user[u].email # Stored(call[c].email)
      /\ \A b \in Calls : At(b, "commit") /\ Stored(call[b].email) = Stored(call[c].email)
                            => b = c

UsersInv ==
    /\ UsersType
    /\ \A c \in Calls : CallOK(c)
    /\ RowsOK
    /\ InsertedAlone

\* Without a right to it, nobody gets further than the test of it.
BarredInv ==
    /\ barred \subseteq Calls
    /\ \A c \in barred :
         /\ ~Entitled(c)
         /\ call[c].kind \notin Scripts => At(c, "authorise")
         /\ call[c].kind \in Scripts => At(c, "count") \/ At(c, "findAdmin")

CreationOK(c) ==
    /\ creation[c].pc = "idle" => creation[c] = Registry!NoCreation
    /\ creation[c].pc # "idle" => At(c, "create") /\ creation[c].id \in PublicIds
    /\ ~creation[c].made

RegistryInv ==
    /\ Registry!RegistryTypeOK
    /\ \A c \in Calls : CreationOK(c)

IInv == UsersInv /\ BarredInv /\ RegistryInv

-----------------------------------------------------------------------------
(* Addresses.                                                              *)

LEMMA Normals ==
    ASSUME NEW sp \in Spellings
    PROVE  /\ Normal(sp) \in Spellings
           /\ Normal(Normal(sp)) = Normal(sp)
           /\ Normal(sp) # None
BY UsersAssumption DEF Normal

LEMMA Existing ==
    ASSUME UsersInv, NEW u \in Users
    PROVE  /\ Exists(u) => user[u].email \in Spellings /\ user[u].email # None
           /\ ~Exists(u) => user[u].email = None
<1>1. Exists(u) => user[u].email \in Spellings
  BY DEF UsersInv, RowsOK, Registered
<1>2. ~Exists(u) => user[u].email = None
  BY DEF Exists, NoUser
<1> QED
  BY <1>1, <1>2, UsersAssumption

-----------------------------------------------------------------------------
(* Users.                                                                  *)

\* A step that moves one call and leaves the rows alone.
LEMMA CallMoves ==
    ASSUME UsersInv, NEW c \in Calls, NEW new \in CallType,
           Become(c, new), UNCHANGED user,
           tokens' \subseteq Registered,
           CallOK(c)',
           new.pc = "commit" =>
             /\ \A u \in Users : user[u].email # Stored(new.email)
             /\ \A b \in Calls \ {c} : At(b, "commit") => Stored(call[b].email) # Stored(new.email)
    PROVE  UsersInv'
<1> USE DEF UsersInv
<1>1. UsersType'
  BY DEF UsersType, Become, Registered, Exists
<1>2. ASSUME NEW b \in Calls PROVE CallOK(b)'
  BY DEF UsersType, Become, CallOK, At, Registered, Exists
<1>3. RowsOK'
  BY DEF RowsOK, EmailsAreUnique, Registered, Exists
<1>4. InsertedAlone'
  BY DEF InsertedAlone, UsersType, Become, At
<1> QED
  BY <1>1, <1>2, <1>3, <1>4

LEMMA NoCallIsCall == NoCall \in CallType /\ NoCall.pc = "idle"
BY DEF NoCall, CallType, Kinds

\* A call that ends.
LEMMA CallEnds ==
    ASSUME UsersInv, NEW c \in Calls, Done(c), UNCHANGED user, tokens' \subseteq Registered
    PROVE  UsersInv'
<1>1. CallOK(c)'
  BY NoCallIsCall DEF UsersInv, UsersType, CallOK, At, Done, Become
<1> QED
  BY <1>1, NoCallIsCall, CallMoves DEF Done

LEMMA RequestsKeep ==
    ASSUME UsersInv, NEW c \in Calls, NEW u \in Users, NEW sp \in Spellings \cup {None},
           NEW kind \in Kinds \ (Scripts \cup {"none"}), NEW roles \in SUBSET Roles,
           kind = "register" => sp # None,
           StartRequest(c, u, kind, sp, roles)
    PROVE  UsersInv'
<1> DEFINE new == [NoCall EXCEPT !.pc = "authorise", !.kind = kind, !.actor = u, !.email = sp,
                                 !.roles = roles]
<1>2. Become(c, new) /\ UNCHANGED <<user, tokens>> /\ u \in tokens
  BY DEF StartRequest
<1>3. /\ new \in CallType /\ new.pc = "authorise"
      /\ new.kind = kind /\ new.actor = u /\ new.email = sp
  BY NoCallIsCall DEF CallType
<1>4. call'[c] = new /\ u \in Registered'
  BY <1>2 DEF UsersInv, UsersType, Become, Registered, Exists
<1>5. sp \in Spellings \/ kind # "register"
  OBVIOUS
<1>6. CallOK(c)'
  BY <1>3, <1>4, <1>5 DEF CallOK, At
<1> HIDE DEF new
<1> QED
  BY <1>2, <1>3, <1>6, CallMoves DEF UsersInv, UsersType

LEMMA ScriptsKeep ==
    ASSUME UsersInv, NEW c \in Calls, NEW sp \in Spellings,
           StartBootstrap(c, sp) \/ StartReset(c, sp)
    PROVE  UsersInv'
<1>1. ASSUME NEW new \in CallType, Become(c, new), UNCHANGED <<user, tokens>>,
             \/ new.pc = "count" /\ new.kind = "bootstrap"
             \/ new.pc = "findAdmin" /\ new.kind = "reset",
             new.email \in Spellings
      PROVE  UsersInv'
  <2>1. CallOK(c)'
    BY <1>1 DEF UsersInv, UsersType, Become, CallOK, At
  <2> QED
    BY <1>1, <2>1, CallMoves DEF UsersInv, UsersType
<1>2. CASE StartBootstrap(c, sp)
  <2> DEFINE new == [NoCall EXCEPT !.pc = "count", !.kind = "bootstrap",
                                   !.email = Normal(sp), !.roles = {"admin"}]
  <2>1. /\ new \in CallType
        /\ new.pc = "count" /\ new.kind = "bootstrap" /\ new.email \in Spellings
    BY NoCallIsCall, Normals DEF CallType, Kinds, Roles
  <2>2. Become(c, new) /\ UNCHANGED <<user, tokens>>
    BY <1>2 DEF StartBootstrap
  <2> QED
    BY <1>1, <2>1, <2>2
<1>3. CASE StartReset(c, sp)
  <2> DEFINE new == [NoCall EXCEPT !.pc = "findAdmin", !.kind = "reset", !.email = Normal(sp)]
  <2>1. /\ new \in CallType
        /\ new.pc = "findAdmin" /\ new.kind = "reset" /\ new.email \in Spellings
    BY NoCallIsCall, Normals DEF CallType, Kinds
  <2>2. Become(c, new) /\ UNCHANGED <<user, tokens>>
    BY <1>3 DEF StartReset
  <2> QED
    BY <1>1, <2>1, <2>2
<1> QED
  BY <1>2, <1>3

LEMMA ContinuesKeep ==
    ASSUME UsersInv, NEW c \in Calls, UsersContinue(c)
    PROVE  UsersInv'
<1>0. call[c] \in CallType /\ CallOK(c) /\ tokens \subseteq Registered
  BY DEF UsersInv, UsersType
<1>1. CASE Done(c) /\ UNCHANGED <<user, tokens>>
  BY <1>0, <1>1, CallEnds
<1>2. CASE Enter(c) \/ ResetPassword(c)
  BY <1>1, <1>2 DEF Enter, ResetPassword
<1>3. CASE Authorise(c)
  <2>1. CASE Valid(call[c].actor) /\ HasRole(call[c].actor, call[c].kind)
    <3> DEFINE kind == call[c].kind
               actor == IF kind \in {"register", "createDevice"} THEN None ELSE call[c].actor
               new == [call[c] EXCEPT !.pc = HandlerOf(kind), !.actor = actor]
    <3>1. Become(c, new) /\ UNCHANGED <<user, tokens>>
      BY <1>3, <2>1 DEF Authorise
    <3>2. kind \in {"register", "createDevice", "connect", "checkStatus"}
      BY <1>3, <1>0 DEF Authorise, CallOK, CallType, Kinds, Scripts
    <3>3. HandlerOf(kind) \in {"insert", "create", "enter", "renew"}
      BY <3>2 DEF HandlerOf
    <3>4. /\ HandlerOf(kind) = "insert" => kind = "register"
          /\ HandlerOf(kind) = "renew" => kind = "checkStatus"
      BY <3>2 DEF HandlerOf
    <3>5. actor \in Users \cup {None}
      BY <1>0 DEF CallType
    <3>6. new \in CallType /\ new.pc = HandlerOf(kind) /\ new.actor = actor
            /\ new.email = call[c].email
      BY <3>3, <3>5, <1>0 DEF CallType
    <3>7. call'[c] = new
      BY <3>1 DEF Become, UsersInv, UsersType
    <3>8. Registered' = Registered
      BY <3>1 DEF Registered, Exists
    <3> HIDE DEF new
    <3>9. CallOK(c)'
      BY <1>3, <1>0, <3>3, <3>4, <3>6, <3>7, <3>8 DEF Authorise, CallOK, At
    <3> QED
      BY <3>1, <3>3, <3>6, <3>9, <1>0, CallMoves
  <2> QED
    BY <1>3, <2>1, <1>1 DEF Authorise
<1>4. CASE Renew(c)
  BY <1>4, <1>0, CallEnds DEF Renew, CallOK
<1>5. CASE Insert(c)
  <2>1. CASE \E u \in Users : user[u].email = Stored(call[c].email)
    BY <1>5, <2>1, <1>1 DEF Insert
  <2>2. CASE \A u \in Users : user[u].email # Stored(call[c].email)
    <3> DEFINE new == [call[c] EXCEPT !.pc = "commit"]
    <3>1. Become(c, new) /\ new \in CallType /\ UNCHANGED <<user, tokens>>
      BY <1>5, <2>2, <1>0 DEF Insert, Goto, Become, CallType
    <3>2. CallOK(c)'
      BY <1>5, <3>1, <1>0 DEF Insert, Become, CallOK, At, CallType, UsersInv, UsersType
    <3>3. \A b \in Calls : At(b, "commit") => Stored(call[b].email) # Stored(call[c].email)
      BY <1>5 DEF Insert
    <3> HIDE DEF new
    <3>4. new.email = call[c].email
      BY <1>0 DEF new, CallType
    <3> QED
      BY <3>1, <3>2, <3>3, <3>4, <2>2, <1>0, CallMoves
  <2> QED
    BY <2>1, <2>2
<1>6. CASE Commit(c)
  <2>1. PICK u \in Users :
          /\ ~Exists(u)
          /\ user' = [user EXCEPT ![u] =
                        [email |-> Stored(call[c].email),
                         roles |-> IF call[c].roles = {} THEN {"user"} ELSE call[c].roles,
                         active |-> TRUE]]
          /\ tokens' = IF call[c].kind = "register" THEN tokens \cup {u} ELSE tokens
    BY <1>6 DEF Commit
  <2> DEFINE email == Stored(call[c].email)
  <2>2. /\ At(c, "commit") /\ call' = [call EXCEPT ![c] = NoCall]
        /\ email \in Spellings /\ Normal(email) = email
        /\ \A v \in Users : user[v].email # email
        /\ \A b \in Calls : b # c /\ At(b, "commit") => Stored(call[b].email) # email
    BY <1>6, <1>0, Normals DEF Commit, Done, Become, CallOK, Stored, UsersInv, InsertedAlone
  <2> HIDE DEF email
  <2>3. /\ user' \in [Users -> UserType] /\ user'[u].email = email
        /\ \A v \in Users \ {u} : user'[v] = user[v]
    BY <2>1, <2>2, <1>0 DEF UsersInv, UsersType, UserType, CallType, Roles, email
  <2>4. Registered' = Registered \cup {u}
    BY <2>3, <2>2, UsersAssumption DEF Registered, Exists, NoUser
  <2>5. UsersType'
    BY <2>1, <2>2, <2>3, <2>4, NoCallIsCall DEF UsersInv, UsersType
  <2>6. ASSUME NEW b \in Calls PROVE CallOK(b)'
    BY <2>2, <2>4, NoCallIsCall DEF UsersInv, UsersType, CallOK, At
  <2>7. RowsOK'
    <3>1. \A v \in Registered' : user'[v].email \in Spellings
                                /\ user'[v].email = Normal(user'[v].email)
      BY <2>2, <2>3, <2>4 DEF UsersInv, RowsOK, EmailsAreUnique, Registered
    <3>2. \A v, w \in Registered' : user'[v].email = user'[w].email => v = w
      <4>1. \A v \in Registered : v # u => user'[v].email # email
        BY <2>2, <2>3 DEF Registered
      <4>2. \A v, w \in Registered : user[v].email = user[w].email => v = w
        BY DEF UsersInv, RowsOK, EmailsAreUnique
      <4>3. \A v \in Registered : v # u => user'[v] = user[v]
        BY <2>3 DEF Registered
      <4> QED
        BY <2>3, <2>4, <4>1, <4>2, <4>3
    <3> QED
      BY <3>1, <3>2 DEF RowsOK, EmailsAreUnique
  <2>8. InsertedAlone'
    BY <2>2, <2>3, NoCallIsCall DEF UsersInv, UsersType, InsertedAlone, At
  <2> QED
    BY <2>5, <2>6, <2>7, <2>8 DEF UsersInv
<1>7. CASE CountAdmins(c)
  <2>1. CASE Goto(c, "findUser")
    <3> DEFINE new == [call[c] EXCEPT !.pc = "findUser"]
    <3>1. Become(c, new) /\ new \in CallType /\ UNCHANGED <<user, tokens>> /\ new.pc # "commit"
      BY <1>7, <2>1, <1>0 DEF CountAdmins, Goto, Become, CallType
    <3>2. CallOK(c)'
      BY <1>7, <3>1, <1>0 DEF CountAdmins, Become, CallOK, At, CallType, UsersInv, UsersType
    <3> QED
      BY <3>1, <3>2, <1>0, CallMoves
  <2> QED
    BY <1>7, <2>1, <1>1 DEF CountAdmins
<1>8. CASE FindUser(c)
  <2>1. CASE Goto(c, "insert")
    <3> DEFINE new == [call[c] EXCEPT !.pc = "insert"]
    <3>1. Become(c, new) /\ new \in CallType /\ UNCHANGED <<user, tokens>> /\ new.pc # "commit"
      BY <1>8, <2>1, <1>0 DEF FindUser, Goto, Become, CallType
    <3>2. CallOK(c)'
      BY <1>8, <3>1, <1>0 DEF FindUser, Become, CallOK, At, CallType, UsersInv, UsersType
    <3> QED
      BY <3>1, <3>2, <1>0, CallMoves
  <2> QED
    BY <1>8, <2>1, <1>1 DEF FindUser
<1>9. CASE FindAdmin(c)
  <2>1. ASSUME NEW u \in Users, Become(c, [call[c] EXCEPT !.pc = "update", !.actor = u])
        PROVE  UsersInv'
    <3> DEFINE new == [call[c] EXCEPT !.pc = "update", !.actor = u]
    <3>1. Become(c, new) /\ new \in CallType /\ UNCHANGED <<user, tokens>> /\ new.pc # "commit"
      BY <1>9, <2>1, <1>0 DEF FindAdmin, Become, CallType
    <3>2. CallOK(c)'
      BY <1>9, <3>1, <1>0 DEF FindAdmin, Become, CallOK, At, CallType, UsersInv, UsersType
    <3> QED
      BY <3>1, <3>2, <1>0, CallMoves
  <2> QED
    BY <1>9, <2>1, <1>1 DEF FindAdmin, Admins
<1> QED
  BY <1>2, <1>3, <1>4, <1>5, <1>6, <1>7, <1>8, <1>9 DEF UsersContinue

\* Logins, expiries and what is done to the table by hand.
LEMMA OutsideKeeps ==
    ASSUME UsersInv,
           \/ \E sp \in Spellings : Login(sp)
           \/ \E u \in Users : TokenExpires(u)
           \/ \E u \in Users, roles \in RoleSets, active \in BOOLEAN : Administers(u, roles, active)
    PROVE  UsersInv'
<1>1. CASE \/ \E sp \in Spellings : Login(sp)
           \/ \E u \in Users : TokenExpires(u)
  <2>1. UNCHANGED <<user, call>> /\ tokens' \subseteq Registered
    BY <1>1 DEF Login, TokenExpires, UsersInv, UsersType
  <2> QED
    BY <2>1 DEF UsersInv, UsersType, CallOK, At, RowsOK, EmailsAreUnique, InsertedAlone,
        Registered, Exists
<1>2. ASSUME NEW u \in Users, NEW roles \in RoleSets, NEW active \in BOOLEAN,
             Administers(u, roles, active)
      PROVE  UsersInv'
  <2>1. /\ user' \in [Users -> UserType] /\ UNCHANGED <<tokens, call>>
        /\ \A v \in Users : user'[v].email = user[v].email
    BY <1>2, UsersAssumption DEF Administers, UsersInv, UsersType, UserType
  <2>2. Registered' = Registered
    <3>1. \A v \in Users \ {u} : user'[v] = user[v]
      BY <1>2 DEF Administers, UsersInv, UsersType
    <3>2. user[u].email # None
      BY <1>2, Existing DEF Administers, Exists
    <3> QED
      BY <3>1, <3>2, <2>1, <1>2 DEF Registered, Exists, NoUser, Administers
  <2>3. \A v \in Registered : v \in Users
    BY DEF Registered
  <2> QED
    BY <2>1, <2>2, <2>3 DEF UsersInv, UsersType, CallOK, At, RowsOK, EmailsAreUnique, InsertedAlone
<1> QED
  BY <1>1, <1>2

LEMMA UsersStepKeeps ==
    ASSUME UsersInv, UsersStep
    PROVE  UsersInv'
<1>1. ASSUME NEW c \in Calls, QueryFails(c) PROVE UsersInv'
  BY <1>1, CallEnds DEF QueryFails, UsersInv, UsersType
<1>2. ASSUME NEW c \in Calls, NEW u \in Users, NEW sp \in Spellings,
             NEW roles \in RoleSets \cup {{}}, StartRequest(c, u, "register", sp, roles)
      PROVE  UsersInv'
  BY <1>2, RequestsKeep, UsersAssumption DEF Kinds, Scripts
<1>3. ASSUME NEW c \in Calls, NEW u \in Users,
             NEW kind \in {"createDevice", "connect", "checkStatus"},
             StartRequest(c, u, kind, None, {})
      PROVE  UsersInv'
  BY <1>3, RequestsKeep DEF Kinds, Scripts
<1>4. ASSUME NEW c \in Calls, NEW sp \in Spellings, StartBootstrap(c, sp) \/ StartReset(c, sp)
      PROVE  UsersInv'
  BY <1>4, ScriptsKeep
<1>5. ASSUME NEW c \in Calls, UsersContinue(c) PROVE UsersInv'
  BY <1>5, ContinuesKeep
<1> QED
  BY <1>1, <1>2, <1>3, <1>4, <1>5, OutsideKeeps DEF UsersStep

LEMMA CreateKeepsUsers ==
    ASSUME UsersInv, NEW c \in Calls, CreateDevice(c) \/ CreateContinues(c)
    PROVE  UsersInv'
<1>1. CASE UNCHANGED <<user, tokens, call>>
  BY <1>1 DEF UsersInv, UsersType, CallOK, At, RowsOK, EmailsAreUnique, InsertedAlone,
      Registered, Exists
<1>2. CASE Done(c) /\ UNCHANGED <<user, tokens>>
  BY <1>2, CallEnds DEF UsersInv, UsersType
<1> QED
  BY <1>1, <1>2 DEF CreateDevice, CreateContinues

-----------------------------------------------------------------------------
(* Who is barred.                                                          *)

\* Where a call without a right may be.
Waiting(c) ==
    /\ call[c].kind \notin Scripts => At(c, "authorise")
    /\ call[c].kind \in Scripts => At(c, "count") \/ At(c, "findAdmin")

\* A step moves one call at most.
LEMMA OneCallMoves ==
    ASSUME UsersInv, Step
    PROVE  \E c \in Calls \cup {None} :
             /\ \A b \in Calls \ {c} : call'[b] = call[b]
             /\ c \in Calls =>
                  \/ call'[c].pc = "idle" \/ call'[c] = call[c]
                  \/ At(c, "idle") /\ Waiting(c)'
                  \/ UsersContinue(c)
<1> USE DEF UsersInv, UsersType
<1>1. ASSUME NEW c \in Calls, Done(c) PROVE call' = [call EXCEPT ![c] = NoCall] /\ call'[c].pc = "idle"
  BY <1>1, NoCallIsCall DEF Done, Become
<1>2. ASSUME NEW c \in Calls, NEW u \in Users, NEW sp, NEW roles,
             NEW kind \in {"register", "createDevice", "connect", "checkStatus"},
             StartRequest(c, u, kind, sp, roles)
      PROVE  /\ \A b \in Calls \ {c} : call'[b] = call[b]
             /\ At(c, "idle") /\ Waiting(c)'
  <2>1. /\ \A b \in Calls \ {c} : call'[b] = call[b]
        /\ At(c, "idle") /\ call'[c].pc = "authorise" /\ call'[c].kind = kind
    BY <1>2, NoCallIsCall DEF StartRequest, Become, CallType
  <2> QED
    BY <2>1 DEF Waiting, At, Scripts
<1>3. ASSUME NEW c \in Calls, NEW sp \in Spellings, StartBootstrap(c, sp) \/ StartReset(c, sp)
      PROVE  /\ \A b \in Calls \ {c} : call'[b] = call[b]
             /\ At(c, "idle") /\ Waiting(c)'
  <2>1. StartBootstrap(c, sp) => /\ \A b \in Calls \ {c} : call'[b] = call[b]
                                 /\ At(c, "idle")
                                 /\ call'[c].pc = "count" /\ call'[c].kind = "bootstrap"
    BY NoCallIsCall DEF StartBootstrap, Become, CallType
  <2>2. StartReset(c, sp) => /\ \A b \in Calls \ {c} : call'[b] = call[b]
                             /\ At(c, "idle")
                             /\ call'[c].pc = "findAdmin" /\ call'[c].kind = "reset"
    BY NoCallIsCall DEF StartReset, Become, CallType
  <2> QED
    BY <1>3, <2>1, <2>2 DEF Waiting, At, Scripts
<1>4. ASSUME NEW c \in Calls, UsersContinue(c)
      PROVE  \A b \in Calls \ {c} : call'[b] = call[b]
  BY <1>4 DEF UsersContinue, Authorise, Enter, Renew, Insert, Commit, CountAdmins, FindUser,
      FindAdmin, ResetPassword, Done, Goto, Become
<1>5. CASE UNCHANGED call
  BY <1>5
<1>6. ASSUME NEW c \in Calls, QueryFails(c) \/ CreateDevice(c) \/ CreateContinues(c)
      PROVE  UNCHANGED call \/ Done(c)
  BY <1>6 DEF QueryFails, CreateDevice, CreateContinues
<1>7. CASE UsersStep
  <2>1. ASSUME NEW c \in Calls, NEW u \in Users,
               \/ \E sp \in Spellings, roles \in RoleSets \cup {{}} :
                    StartRequest(c, u, "register", sp, roles)
               \/ \E kind \in {"createDevice", "connect", "checkStatus"} :
                    StartRequest(c, u, kind, None, {})
        PROVE  /\ \A b \in Calls \ {c} : call'[b] = call[b]
               /\ At(c, "idle") /\ Waiting(c)'
    BY <2>1, <1>2
  <2>2. CASE \/ \E sp \in Spellings : Login(sp)
             \/ \E u \in Users : \/ TokenExpires(u)
                               \/ \E roles \in RoleSets, active \in BOOLEAN :
                                    Administers(u, roles, active)
    BY <2>2, <1>5 DEF Login, TokenExpires, Administers
  <2>3. ASSUME NEW c \in Calls, QueryFails(c)
        PROVE  /\ \A b \in Calls \ {c} : call'[b] = call[b]
               /\ call'[c].pc = "idle" \/ call'[c] = call[c]
    BY <2>3, <1>1, <1>6
  <2> QED
    BY <1>7, <2>1, <2>2, <2>3, <1>3, <1>4 DEF UsersStep
<1>8. ASSUME NEW c \in Calls, CreateDevice(c) \/ CreateContinues(c)
      PROVE  /\ \A b \in Calls \ {c} : call'[b] = call[b]
             /\ call'[c].pc = "idle" \/ call'[c] = call[c]
  BY <1>8, <1>1, <1>6
<1> QED
  BY <1>7, <1>8 DEF Step

\* Who has no right ends where it is tested.
LEMMA BarredEnd ==
    ASSUME UsersInv, NEW c \in Calls, ~Entitled(c), Waiting(c), UsersContinue(c)
    PROVE  call'[c].pc = "idle"
<1>0. call[c] \in CallType /\ CallOK(c) /\ call \in [Calls -> CallType]
  BY DEF UsersInv, UsersType
<1>1. Done(c) => call'[c].pc = "idle"
  BY <1>0, NoCallIsCall DEF Done, Become
<1>2. Authorise(c) \/ CountAdmins(c) \/ FindAdmin(c)
  BY DEF Waiting, UsersContinue, Enter, Renew, Insert, Commit, FindUser, ResetPassword, At
<1>3. CASE Authorise(c)
  <2>1. call[c].kind \notin Scripts /\ call[c].actor \in Users
    BY <1>3, <1>0 DEF Authorise, CallOK, Registered
  <2>2. ~(Valid(call[c].actor) /\ HasRole(call[c].actor, call[c].kind))
    BY <2>1 DEF Entitled, Valid, HasRole, Scripts
  <2> QED
    BY <1>1, <1>3, <2>2 DEF Authorise
<1>4. CASE CountAdmins(c)
  <2>1. Admins # {}
    BY <1>4, <1>0 DEF CountAdmins, CallOK, Entitled, Admins
  <2> QED
    BY <1>1, <1>4, <2>1 DEF CountAdmins
<1>5. CASE FindAdmin(c)
  <2>1. \A u \in Admins : user[u].email # call[c].email
    BY <1>5, <1>0 DEF FindAdmin, CallOK, Entitled, Admins
  <2> QED
    BY <1>1, <1>5, <2>1 DEF FindAdmin
<1> QED
  BY <1>2, <1>3, <1>4, <1>5

LEMMA BarredKeeps ==
    ASSUME UsersInv, BarredInv, Step, Bars
    PROVE  BarredInv'
<1>1. barred' \subseteq Calls
  BY DEF Bars
<1>2. ASSUME NEW b \in barred' PROVE ~Entitled(b)' /\ Waiting(b)'
  <2>1. b \in Calls /\ call'[b].pc # "idle" /\ (At(b, "idle") \/ b \in barred) /\ ~Entitled(b)'
    BY DEF Bars
  <2>2. b \in barred => ~Entitled(b) /\ Waiting(b)
    BY DEF BarredInv, Waiting
  <2>3. PICK c \in Calls \cup {None} :
          /\ \A a \in Calls \ {c} : call'[a] = call[a]
          /\ c \in Calls =>
               \/ call'[c].pc = "idle" \/ call'[c] = call[c]
               \/ At(c, "idle") /\ Waiting(c)'
               \/ UsersContinue(c)
    BY OneCallMoves
  <2>4. CASE call'[b] = call[b]
    BY <2>1, <2>2, <2>4 DEF Waiting, At
  <2>5. CASE UsersContinue(b)
    <3>1. ~At(b, "idle")
      BY <2>5 DEF UsersContinue, Authorise, Enter, Renew, Insert, Commit, CountAdmins, FindUser,
          FindAdmin, ResetPassword, At
    <3> QED
      BY <2>1, <2>2, <2>5, <3>1, BarredEnd
  <2> QED
    BY <2>1, <2>3, <2>4, <2>5
<1> QED
  BY <1>1, <1>2 DEF BarredInv, Waiting

-----------------------------------------------------------------------------
(* Devices.                                                                *)

LEMMA UsersStepKeepsRegistry ==
    ASSUME UsersInv, RegistryInv, UsersStep, UNCHANGED <<publicId, creation>>
    PROVE  RegistryInv'
<1>1. ASSUME NEW c \in Calls, At(c, "create") PROVE At(c, "create")'
  <2>1. Step
    BY DEF Step
  <2>2. ASSUME NEW b \in Calls, call'[b] # call[b] PROVE ~At(b, "create")
    <3> USE <2>2 DEF UsersInv, UsersType
    <3>1. \A a \in Calls : a # b /\ UsersContinue(a) => FALSE
      BY DEF UsersContinue, Authorise, Enter, Renew, Insert, Commit, CountAdmins, FindUser,
          FindAdmin, ResetPassword, Done, Goto, Become
    <3>2. UsersContinue(b) => ~At(b, "create")
      BY DEF UsersContinue, Authorise, Enter, Renew, Insert, Commit, CountAdmins, FindUser,
          FindAdmin, ResetPassword, At
    <3>3. \A a \in Calls : QueryFails(a) => ~At(b, "create")
      BY DEF QueryFails, Done, Become, At
    <3>4. \A a \in Calls, u \in Users : \A kind, sp, roles :
            StartRequest(a, u, kind, sp, roles) => ~At(b, "create")
      BY DEF StartRequest, Become, At
    <3>5. \A a \in Calls : \A sp : StartBootstrap(a, sp) \/ StartReset(a, sp) => ~At(b, "create")
      BY DEF StartBootstrap, StartReset, Become, At
    <3> QED
      BY <3>1, <3>2, <3>3, <3>4, <3>5 DEF UsersStep, Login, TokenExpires, Administers
  <2> QED
    BY <1>1, <2>2 DEF At
<1> QED
  BY <1>1 DEF RegistryInv, Registry!RegistryTypeOK, CreationOK, Registry!Creating, At

CreationType == [pc : {"idle", "insert", "commit"}, attempt : 0..MaxAttempts,
                 id : PublicIds \cup {None}, made : BOOLEAN]

\* A step that moves the creation of one call and leaves the rows alone.
LEMMA CreationMoves ==
    ASSUME RegistryInv, NEW c \in Calls, NEW new \in CreationType,
           creation' = [creation EXCEPT ![c] = new], UNCHANGED publicId,
           \A b \in Calls \ {c} : call'[b] = call[b],
           CreationOK(c)'
    PROVE  RegistryInv'
<1> USE DEF RegistryInv, Registry!RegistryTypeOK, CreationType, Registry!Creating
<1>1. Registry!RegistryTypeOK' /\ creation'[c] = new
  OBVIOUS
<1>2. ASSUME NEW b \in Calls PROVE CreationOK(b)'
  BY DEF CreationOK, At
<1> QED
  BY <1>1, <1>2

LEMMA NoCreationIs == Registry!NoCreation \in CreationType /\ Registry!NoCreation.pc = "idle"
                        /\ ~Registry!NoCreation.made
BY RegistryAssumption DEF Registry!NoCreation, CreationType

\* A create that ends.
LEMMA CreationEnds ==
    ASSUME RegistryInv, NEW c \in Calls, Registry!Ends(c), UNCHANGED publicId,
           \A b \in Calls \ {c} : call'[b] = call[b]
    PROVE  RegistryInv'
<1>1. CreationOK(c)'
  BY NoCreationIs
  DEF RegistryInv, Registry!RegistryTypeOK, CreationType, CreationOK, Registry!Ends
<1> QED
  BY <1>1, NoCreationIs, CreationMoves DEF Registry!Ends

\* The next attempt, of a call that is still being handled.
LEMMA AttemptsKeep ==
    ASSUME RegistryInv, NEW c \in Calls, NEW collision \in BOOLEAN, ~Registry!Creating(c, "idle"),
           Registry!Thrown(c, collision, FALSE), UNCHANGED publicId,
           \A b \in Calls \ {c} : call'[b] = call[b],
           creation'[c].pc # "idle" => UNCHANGED call
    PROVE  RegistryInv'
<1>0. creation[c] \in CreationType /\ CreationOK(c) /\ creation \in [Calls -> CreationType]
  BY DEF RegistryInv, Registry!RegistryTypeOK, CreationType
<1>1. CASE Registry!Ends(c)
  BY <1>1, CreationEnds
<1>2. CASE creation[c].attempt < MaxAttempts
  <2>1. CASE \E p \in PublicIds :
               creation' = [creation EXCEPT ![c].pc = "insert", ![c].attempt = @ + 1,
                                            ![c].id = p, ![c].made = @ \/ FALSE]
    <3>1. PICK p \in PublicIds :
            creation' = [creation EXCEPT ![c].pc = "insert", ![c].attempt = @ + 1,
                                         ![c].id = p, ![c].made = @ \/ FALSE]
      BY <2>1
    <3> DEFINE new == creation'[c]
    <3>2. /\ new \in CreationType /\ new.pc = "insert" /\ new.id = p /\ ~new.made
          /\ creation' = [creation EXCEPT ![c] = new]
      BY <3>1, <1>0, <1>2, RegistryAssumption DEF CreationType, CreationOK
    <3>3. At(c, "create")'
      BY <3>2, <1>0 DEF CreationOK, At, Registry!Creating
    <3>4. CreationOK(c)'
      BY <3>2, <3>3 DEF CreationOK
    <3> QED
      BY <3>2, <3>4, CreationMoves
  <2> QED
    BY <1>1, <2>1 DEF Registry!Thrown
<1> QED
  BY <1>1, <1>2 DEF Registry!Thrown, Registry!Retriable, Registry!LoopGoesOn

LEMMA CreateKeepsRegistry ==
    ASSUME UsersInv, RegistryInv, NEW c \in Calls, CreateDevice(c) \/ CreateContinues(c)
    PROVE  RegistryInv'
<1>0. creation[c] \in CreationType /\ CreationOK(c) /\ creation \in [Calls -> CreationType]
  BY DEF RegistryInv, Registry!RegistryTypeOK, CreationType
<1>1. /\ \A b \in Calls \ {c} : call'[b] = call[b]
      /\ creation'[c].pc # "idle" => UNCHANGED call
  BY DEF CreateDevice, CreateContinues, Done, Become, UsersInv, UsersType,
     Registry!StartCreate, Registry!Creating
<1>2. CASE CreateDevice(c)
  <2>1. PICK p \in PublicIds : Registry!StartCreate(c, p)
    BY <1>2 DEF CreateDevice
  <2> DEFINE new == [Registry!NoCreation EXCEPT !.pc = "insert", !.attempt = 1, !.id = p]
  <2>2. new \in CreationType /\ new.pc = "insert" /\ new.id = p /\ ~new.made
    <3>1. 1 \in 0..MaxAttempts
      BY RegistryAssumption
    <3>2. \A x \in CreationType, n \in 0..MaxAttempts :
            ~x.made =>
              LET y == [x EXCEPT !.pc = "insert", !.attempt = n, !.id = p] IN
              y \in CreationType /\ y.pc = "insert" /\ y.id = p /\ ~y.made
      BY DEF CreationType
    <3> QED
      BY <3>1, <3>2, NoCreationIs
  <2>3. creation' = [creation EXCEPT ![c] = new] /\ UNCHANGED publicId
    BY <2>1 DEF Registry!StartCreate
  <2>4. At(c, "create")'
    BY <1>2 DEF CreateDevice, At
  <2> HIDE DEF new
  <2>5. CreationOK(c)'
    BY <2>2, <2>3, <2>4, <1>0 DEF CreationOK
  <2> QED
    BY <2>2, <2>3, <2>5, <1>1, CreationMoves
<1>3. CASE Registry!InsertDevice(c) /\ CreateContinues(c)
  <2>1. CASE Registry!Thrown(c, TRUE, FALSE)
    BY <1>1, <1>3, <2>1, AttemptsKeep DEF Registry!InsertDevice, Registry!Creating
  <2>2. CASE creation' = [creation EXCEPT ![c].pc = "commit"]
    <3> DEFINE new == [creation[c] EXCEPT !.pc = "commit"]
    <3>1. /\ new \in CreationType /\ new.pc = "commit" /\ new.id = creation[c].id
          /\ new.made = creation[c].made
      BY <1>0 DEF CreationType
    <3>2. creation' = [creation EXCEPT ![c] = new] /\ UNCHANGED publicId
      BY <1>3, <2>2, <1>0 DEF Registry!InsertDevice
    <3> HIDE DEF new
    <3>4. creation'[c] = new
      BY <3>2, <1>0
    <3>5. CreationOK(c)'
      BY <3>1, <3>4, <1>0, <1>1, <1>3 DEF CreationOK, Registry!InsertDevice, Registry!Creating, At
    <3> QED
      BY <3>1, <3>2, <3>5, <1>1, CreationMoves
  <2> QED
    BY <1>3, <2>1, <2>2 DEF Registry!InsertDevice
<1>4. CASE Registry!CommitDevice(c) /\ CreateContinues(c)
  <2>1. Registry!Ends(c)
    BY <1>4 DEF Registry!CommitDevice, Registry!Thrown, Registry!Retriable
  <2>2. PICK d \in Devices : /\ publicId[d] = None
                            /\ publicId' = [publicId EXCEPT ![d] = creation[c].id]
    BY <1>4 DEF Registry!CommitDevice
  <2>3. creation[c].id \in PublicIds
    BY <1>4, <1>0 DEF Registry!CommitDevice, Registry!Creating, CreationOK
  <2>4. /\ creation' \in [Calls -> CreationType] /\ creation'[c] = Registry!NoCreation
        /\ \A b \in Calls \ {c} : creation'[b] = creation[b]
    BY <2>1, <1>0, NoCreationIs DEF Registry!Ends
  <2>5. publicId' \in [Devices -> PublicIds \cup {None}]
    BY <2>2, <2>3 DEF RegistryInv, Registry!RegistryTypeOK
  <2>6. Registry!RegistryTypeOK'
    BY <2>4, <2>5 DEF Registry!RegistryTypeOK, CreationType
  <2>7. ASSUME NEW b \in Calls PROVE CreationOK(b)'
    BY <2>4, <1>1, NoCreationIs DEF RegistryInv, CreationOK, At
  <2> QED
    BY <2>6, <2>7 DEF RegistryInv
<1>5. CASE Registry!CreateFails(c) /\ CreateContinues(c)
  BY <1>1, <1>5, AttemptsKeep DEF Registry!CreateFails
<1> QED
  BY <1>2, <1>3, <1>4, <1>5 DEF CreateContinues, Registry!RegistryContinue

-----------------------------------------------------------------------------
(* The theorems.                                                           *)

LEMMA Initially == ASSUME Init PROVE IInv
<1> USE DEF Init, UsersInit, Registry!RegistryInit
<1>1. Registered = {}
  BY DEF Registered, Exists
<1>2. UsersType
  BY <1>1, NoCallIsCall DEF UsersType, UserType, NoUser
<1>3. \A c \in Calls : CallOK(c)
  BY NoCallIsCall DEF CallOK, At
<1>4. RowsOK /\ InsertedAlone
  BY <1>1, NoCallIsCall DEF RowsOK, EmailsAreUnique, InsertedAlone, At
<1>5. BarredInv
  BY DEF BarredInv
<1>6. RegistryInv
  BY NoCreationIs DEF RegistryInv, Registry!RegistryTypeOK, CreationOK, Registry!Creating,
     CreationType
<1> QED
  BY <1>2, <1>3, <1>4, <1>5, <1>6 DEF IInv, UsersInv

LEMMA Inductively == ASSUME IInv, [Next]_vars PROVE IInv'
<1>1. CASE UNCHANGED vars
  <2> USE <1>1 DEF vars, IInv
  <2>1. UsersInv'
    BY DEF UsersInv, UsersType, CallOK, At, RowsOK, EmailsAreUnique, InsertedAlone, Registered,
        Exists
  <2>2. BarredInv'
    <3>1. \A c \in barred : Entitled(c)' <=> Entitled(c)
      BY DEF Entitled, HasRole
    <3> QED
      BY <3>1 DEF BarredInv, At
  <2>3. RegistryInv'
    BY DEF RegistryInv, Registry!RegistryTypeOK, CreationOK, Registry!Creating, At
  <2> QED
    BY <2>1, <2>2, <2>3
<1>2. CASE UsersStep /\ UNCHANGED <<publicId, creation>> /\ Bars
  BY <1>2, UsersStepKeeps, BarredKeeps, UsersStepKeepsRegistry DEF IInv, Step
<1>3. ASSUME NEW c \in Calls, CreateDevice(c) \/ CreateContinues(c), Bars PROVE IInv'
  BY <1>3, CreateKeepsUsers, BarredKeeps, CreateKeepsRegistry DEF IInv, Step
<1> QED
  BY <1>1, <1>2, <1>3 DEF Next, Step

\* The inductive invariant holds of every behaviour.
THEOREM Invariance == Spec => []IInv
BY Initially, Inductively, PTL DEF Spec

\* Every variable keeps its shape, and only what the guard has admitted reaches
\* DevicesService.create.
THEOREM TypeCorrect == Spec => []TypeOK
<1>1. IInv => TypeOK
  BY DEF IInv, UsersInv, UsersType, UserType, CallType, BarredInv, RegistryInv, CreationOK, TypeOK
<1> QED
  BY <1>1, Invariance, PTL

\* However register and bootstrap race, there is one row for an address.
THEOREM OneAccountEach == Spec => []EmailsAreUnique
<1>1. IInv => EmailsAreUnique
  BY DEF IInv, UsersInv, RowsOK
<1> QED
  BY <1>1, Invariance, PTL

\* Who has had no access since a request arrived gets past no guard with it.
THEOREM AccessIsCurrent == Spec => []OutcastsAreRefused
<1>1. IInv => OutcastsAreRefused
  BY DEF IInv, BarredInv, OutcastsAreRefused
<1> QED
  BY <1>1, Invariance, PTL

\* Scripts that come too late, or for the wrong account, do nothing.
THEOREM ScriptsKnowTheirPlace == Spec => []LateScriptsDoNothing
<1>1. IInv => LateScriptsDoNothing
  BY DEF IInv, BarredInv, LateScriptsDoNothing
<1> QED
  BY <1>1, Invariance, PTL

\* A create that is tried again has not made a device before.
THEOREM RetriesAreSafe == Spec => []OneDevicePerCreate
<1>1. IInv => OneDevicePerCreate
  BY DEF IInv, RegistryInv, CreationOK, OneDevicePerCreate, Registry!OneDeviceEach
<1> QED
  BY <1>1, Invariance, PTL
=============================================================================
