------------------------ MODULE DevicePresence_proofs ------------------------
(***************************************************************************)
(* Proofs about DevicePresence, for any number of tablets, sockets and     *)
(* calls.                                                                  *)
(***************************************************************************)
EXTENDS DevicePresence, TLAPS

-----------------------------------------------------------------------------
(* The inductive invariant.                                                *)

SocketType == [pc : SocketPcs, device : Devices \cup {None},
               credential : Credentials \cup {None}, outcast : BOOLEAN]

CallType == [pc : Pcs, device : Devices \cup {None}, credential : Credentials \cup {None},
             change : Changes \cup {"none"}, seen : BOOLEAN]

\* What is so of the state s of a socket.  An outcast that has got past isActive
\* is one whose credential is not in force, which no later one changes:
\* credentials are issued once.
StateOK(s) ==
    s.pc # "closed" =>
      /\ s.device \in Devices /\ s.credential \in Credentials
      /\ issued[s.credential] # None
      /\ s.outcast => Unauthorised(s.device, s.credential)
      /\ s.pc = "readCredential" /\ s.outcast => current[s.device] # s.credential
      /\ s.pc \in {"authorised", "open"} => ~s.outcast

SocketOK(k) == StateOK(socket[k])

CallOK(c) ==
    /\ call[c].pc # "idle" => call[c].device \in Devices
    /\ call[c].pc = "login" => call[c].credential \in Credentials

WithdrawnAreOpen == \A k \in withdrawn : SocketAt(k, "open")

IInv ==
    /\ TypeOK
    /\ \A k \in Sockets : SocketOK(k)
    /\ \A c \in Calls : CallOK(c)
    /\ PresenceIsReal
    /\ WithdrawnAreOpen
    /\ WithdrawalsAreUnderWay

LEMMA TypeOKIs ==
    TypeOK <=> /\ active \in [Devices -> BOOLEAN]
               /\ current \in [Devices -> Credentials \cup {None}]
               /\ issued \in [Credentials -> Devices \cup {None}]
               /\ tokens \in SUBSET Credentials
               /\ socket \in [Sockets -> SocketType]
               /\ connections \in [Devices -> SUBSET Sockets]
               /\ call \in [Calls -> CallType]
               /\ withdrawn \in SUBSET Sockets
               /\ forgotten \subseteq withdrawn
BY DEF TypeOK, SocketType, CallType

LEMMA TypeOKNext ==
    TypeOK' <=> /\ active' \in [Devices -> BOOLEAN]
                /\ current' \in [Devices -> Credentials \cup {None}]
                /\ issued' \in [Credentials -> Devices \cup {None}]
                /\ tokens' \in SUBSET Credentials
                /\ socket' \in [Sockets -> SocketType]
                /\ connections' \in [Devices -> SUBSET Sockets]
                /\ call' \in [Calls -> CallType]
                /\ withdrawn' \in SUBSET Sockets
                /\ forgotten' \subseteq withdrawn'
BY DEF TypeOK, SocketType, CallType

LEMMA Defaults == NoSocket \in SocketType /\ NoCall \in CallType
BY DEF NoSocket, NoCall, SocketType, CallType, SocketPcs, Pcs

-----------------------------------------------------------------------------
(* Steps of a socket.                                                      *)

\* What a step of socket k leaves to the others.
LEMMA SocketFrame ==
    ASSUME IInv, NEW k \in Sockets, NEW s \in SocketType,
           socket' = [socket EXCEPT ![k] = s],
           UNCHANGED <<active, current, issued, tokens, call>>,
           \/ withdrawn' = withdrawn \ {k} /\ forgotten' = forgotten \ {k}
           \/ withdrawn' = withdrawn /\ forgotten' = forgotten,
           k \in withdrawn' => s = socket[k],
           connections' \in [Devices -> SUBSET Sockets],
           \A d \in Devices : connections'[d] =
             IF s.pc = "open" /\ s.device = d THEN connections[d] \cup {k}
                                              ELSE connections[d] \ {k},
           StateOK(s)
    PROVE  IInv'
<1>0. /\ TypeOK /\ socket \in [Sockets -> SocketType] /\ withdrawn \in SUBSET Sockets
      /\ \A x \in Sockets : SocketOK(x)
      /\ \A c \in Calls : CallOK(c)
      /\ PresenceIsReal /\ WithdrawnAreOpen /\ WithdrawalsAreUnderWay
  BY TypeOKIs DEF IInv
<1>1. /\ socket' \in [Sockets -> SocketType] /\ socket'[k] = s
      /\ \A x \in Sockets \ {k} : socket'[x] = socket[x]
      /\ withdrawn' \subseteq withdrawn
      /\ forgotten \subseteq withdrawn /\ forgotten' \subseteq withdrawn'
      /\ withdrawn' \ forgotten' \subseteq withdrawn \ forgotten
  BY <1>0, TypeOKIs
<1>2. TypeOK'
  BY <1>0, <1>1, TypeOKIs, TypeOKNext
<1>3. \A x \in Sockets : SocketOK(x)'
  BY <1>0, <1>1 DEF SocketOK, StateOK, Unauthorised
<1>4. \A c \in Calls : CallOK(c)'
  BY <1>0 DEF CallOK
<1>5. PresenceIsReal'
  <2> SUFFICES ASSUME NEW d \in Devices
               PROVE  connections'[d] = {x \in Sockets : socket'[x].pc = "open" /\ socket'[x].device = d}
    BY DEF PresenceIsReal, SocketAt
  <2>1. connections[d] = {x \in Sockets : socket[x].pc = "open" /\ socket[x].device = d}
    BY <1>0 DEF PresenceIsReal, SocketAt
  <2> QED BY <1>1, <2>1
<1>6. WithdrawnAreOpen'
  BY <1>0, <1>1 DEF WithdrawnAreOpen, SocketAt
<1>7. WithdrawalsAreUnderWay'
  <2> SUFFICES ASSUME NEW x \in withdrawn' \ forgotten'
               PROVE  \E c \in Calls : Closes(c, socket'[x].device)
    BY DEF WithdrawalsAreUnderWay, Closes, At, Withdraws
  <2>1. socket'[x] = socket[x] /\ x \in withdrawn \ forgotten
    BY <1>0, <1>1
  <2> QED BY <1>0, <2>1 DEF WithdrawalsAreUnderWay
<1> QED BY <1>2, <1>3, <1>4, <1>5, <1>6, <1>7 DEF IInv

LEMMA SocketSteps ==
    ASSUME IInv, NEW k \in Sockets, SocketStep(k)
    PROVE  IInv'
<1>0. /\ TypeOK /\ socket \in [Sockets -> SocketType] /\ connections \in [Devices -> SUBSET Sockets]
      /\ SocketOK(k) /\ socket[k] \in SocketType /\ withdrawn \in SUBSET Sockets
      /\ forgotten \subseteq withdrawn
      /\ PresenceIsReal /\ WithdrawnAreOpen /\ issued \in [Credentials -> Devices \cup {None}]
  BY TypeOKIs DEF IInv
<1>1. socket[k].pc # "open" => /\ k \notin withdrawn /\ k \notin forgotten
                               /\ \A d \in Devices : k \notin connections[d]
  BY <1>0 DEF PresenceIsReal, WithdrawnAreOpen, SocketAt
<1>2. \A d \in Devices : d # socket[k].device => k \notin connections[d]
  BY <1>0 DEF PresenceIsReal
<1>a. ASSUME NEW d \in Devices, NEW cr \in Credentials, Handshake(k, d, cr) PROVE IInv'
  <2> DEFINE s == [pc |-> "readDevice", device |-> d, credential |-> cr,
                 outcast |-> Unauthorised(d, cr)]
  <2>1. s \in SocketType /\ s.pc = "readDevice" /\ s.device = d /\ s.credential = cr
         /\ (s.outcast <=> Unauthorised(d, cr))
    BY <1>0 DEF SocketType, SocketPcs, Unauthorised
  <2>2. /\ socket' = [socket EXCEPT ![k] = s] /\ issued[cr] = d /\ socket[k].pc = "closed"
        /\ UNCHANGED <<active, current, issued, tokens, connections, call, withdrawn, forgotten>>
    BY <1>a DEF Handshake, SocketAt
  <2>3. /\ k \notin withdrawn' /\ connections' \in [Devices -> SUBSET Sockets]
        /\ \A e \in Devices : connections'[e] = connections[e] \ {k}
    BY <1>0, <1>1, <2>2
  <2>4. StateOK(s)
    BY <2>1, <2>2, NoneIsNoId DEF StateOK
  <2> HIDE DEF s
  <2> QED BY <2>1, <2>2, <2>3, <2>4, SocketFrame
<1>b. ASSUME NEW pc \in {"readCredential", "authorised"}, Move(k, pc),
             UNCHANGED <<active, current, issued, tokens, connections, call, withdrawn, forgotten>>,
             socket[k].pc \in {"readDevice", "readCredential"},
             IF pc = "authorised" THEN SocketAt(k, "readCredential") /\ Authorised(k)
                                  ELSE active[socket[k].device]
      PROVE  IInv'
  <2> DEFINE s == [socket[k] EXCEPT !.pc = pc]
  <2>1. s \in SocketType /\ s.pc = pc /\ s.device = socket[k].device
         /\ s.credential = socket[k].credential /\ s.outcast = socket[k].outcast
    BY <1>0 DEF SocketType, SocketPcs
  <2>2. socket' = [socket EXCEPT ![k] = s]
    BY <1>0, <1>b DEF Move
  <2>3. StateOK(s)
    BY <1>0, <1>b, <2>1 DEF SocketOK, StateOK, SocketAt, Authorised, Unauthorised
  <2>4. \A d \in Devices : connections'[d] = connections[d] \ {k}
    BY <1>0, <1>1, <1>b
  <2> HIDE DEF s
  <2> QED BY <1>0, <1>1, <1>b, <2>1, <2>2, <2>3, <2>4, SocketFrame
<1>c. ASSUME Close(k), UNCHANGED <<active, current, issued, tokens, call>>,
             withdrawn' = withdrawn \ {k}, forgotten' = forgotten \ {k},
             connections' \in [Devices -> SUBSET Sockets],
             \A d \in Devices : connections'[d] = connections[d] \ {k}
      PROVE  IInv'
  <2>1. NoSocket \in SocketType /\ NoSocket.pc = "closed" /\ StateOK(NoSocket)
    BY Defaults DEF NoSocket, StateOK
  <2> QED BY <1>c, <2>1, SocketFrame DEF Close
<1>d. CASE ReadDevice(k)
  <2>1. CASE active[socket[k].device]
    BY <1>b, <1>d, <2>1 DEF ReadDevice, SocketAt
  <2>2. CASE ~active[socket[k].device]
    BY <1>0, <1>1, <1>c, <1>d, <2>2 DEF ReadDevice, SocketAt
  <2> QED BY <2>1, <2>2
<1>e. CASE ReadCredential(k)
  <2>1. CASE Authorised(k)
    BY <1>b, <1>e, <2>1 DEF ReadCredential, SocketAt
  <2>2. CASE ~Authorised(k)
    BY <1>0, <1>1, <1>c, <1>e, <2>2 DEF ReadCredential, SocketAt
  <2> QED BY <2>1, <2>2
<1>f. CASE Register(k)
  <2> DEFINE s == [socket[k] EXCEPT !.pc = "open"]
  <2>0. socket[k].pc = "authorised"
    BY <1>f DEF Register, SocketAt
  <2>1. s \in SocketType /\ s.pc = "open" /\ s.device = socket[k].device
         /\ s.credential = socket[k].credential /\ s.outcast = socket[k].outcast
    BY <1>0 DEF SocketType, SocketPcs
  <2>2. /\ socket' = [socket EXCEPT ![k] = s]
        /\ UNCHANGED <<active, current, issued, tokens, call, withdrawn, forgotten>>
    BY <1>0, <1>f DEF Register, Move
  <2>3. StateOK(s) /\ s.device \in Devices
    BY <1>0, <2>0, <2>1 DEF SocketOK, StateOK
  <2>4. /\ connections' \in [Devices -> SUBSET Sockets]
        /\ \A d \in Devices : connections'[d] = IF s.device = d THEN connections[d] \cup {k}
                                                            ELSE connections[d] \ {k}
    BY <1>0, <1>2, <1>f, <2>1, <2>3 DEF Register
  <2>5. k \in withdrawn' => s = socket[k]
    BY <1>1, <2>0, <2>2
  <2>6. /\ UNCHANGED <<active, current, issued, tokens, call>>
        /\ withdrawn' = withdrawn /\ forgotten' = forgotten
    BY <2>2
  <2>8. s \in SocketType /\ socket' = [socket EXCEPT ![k] = s]
    BY <2>1, <2>2
  <2> HIDE DEF s
  <2>9. \A d \in Devices : connections'[d] =
             IF s.pc = "open" /\ s.device = d THEN connections[d] \cup {k}
                                              ELSE connections[d] \ {k}
    BY <2>1, <2>4
  <2> QED BY <2>3, <2>4, <2>5, <2>6, <2>8, <2>9, SocketFrame
<1>g. CASE Abandon(k)
  BY <1>0, <1>1, <1>c, <1>g DEF Abandon
<1>h. CASE Disconnect(k)
  <2>1. /\ connections' \in [Devices -> SUBSET Sockets]
        /\ \A d \in Devices : connections'[d] = connections[d] \ {k}
    BY <1>0, <1>2, <1>h DEF Disconnect, Unregistered
  <2>2. /\ Close(k) /\ withdrawn' = withdrawn \ {k} /\ forgotten' = forgotten \ {k}
        /\ UNCHANGED <<active, current, issued, tokens, call>>
    BY <1>h DEF Disconnect
  <2> QED BY <1>c, <2>1, <2>2
<1> QED BY <1>a, <1>d, <1>e, <1>f, <1>g, <1>h DEF SocketStep

-----------------------------------------------------------------------------
(* Steps of a call.                                                        *)

\* No socket opens or closes, and nothing that was about to close sockets goes
\* away.
LEMMA CallFrame ==
    ASSUME IInv, NEW c \in Calls, NEW r \in CallType,
           call' = [call EXCEPT ![c] = r],
           r.pc # "idle" => r.device \in Devices,
           r.pc = "login" => r.credential \in Credentials,
           socket' \in [Sockets -> SocketType],
           \A x \in Sockets : /\ socket'[x].pc = socket[x].pc
                              /\ socket'[x].device = socket[x].device
                              /\ SocketOK(x)',
           UNCHANGED connections,
           active' \in [Devices -> BOOLEAN], tokens' \in SUBSET Credentials,
           UNCHANGED <<current, issued>>,
           \A d \in Devices : Closes(c, d) => Closes(c, d)',
           \/ withdrawn' = withdrawn /\ forgotten' = forgotten
           \/ \E d \in Devices : Withdraw(d) /\ Closes(c, d)'
    PROVE  IInv'
<1>0. /\ TypeOK /\ call \in [Calls -> CallType] /\ withdrawn \in SUBSET Sockets
      /\ connections \in [Devices -> SUBSET Sockets]
      /\ \A x \in Sockets : SocketOK(x)
      /\ \A b \in Calls : CallOK(b)
      /\ PresenceIsReal /\ WithdrawnAreOpen /\ WithdrawalsAreUnderWay
  BY TypeOKIs DEF IInv
<1>1. /\ call' \in [Calls -> CallType] /\ call'[c] = r
      /\ \A b \in Calls \ {c} : call'[b] = call[b]
  BY <1>0
<1>2. TypeOK'
  <2>1. withdrawn' \in SUBSET Sockets /\ forgotten' \subseteq withdrawn'
    BY <1>0, TypeOKIs DEF Withdraw
  <2> QED BY <1>0, <1>1, <2>1, TypeOKIs, TypeOKNext
<1>3. \A x \in Sockets : SocketOK(x)'
  OBVIOUS
<1>4. \A b \in Calls : CallOK(b)'
  BY <1>0, <1>1 DEF CallOK
<1>5. PresenceIsReal'
  BY <1>0 DEF PresenceIsReal, SocketAt
<1>6. WithdrawnAreOpen'
  BY <1>0 DEF WithdrawnAreOpen, PresenceIsReal, SocketAt, Withdraw
<1>7. WithdrawalsAreUnderWay'
  <2> SUFFICES ASSUME NEW x \in withdrawn' \ forgotten'
               PROVE  \E b \in Calls : Closes(b, socket[x].device)'
    BY DEF WithdrawalsAreUnderWay, Closes, At, Withdraws
  <2>0. x \in Sockets /\ SocketAt(x, "open")
    BY <1>0, <1>6 DEF WithdrawnAreOpen, SocketAt, PresenceIsReal, Withdraw
  <2>1. socket[x].device \in Devices /\ socket'[x].device = socket[x].device
    BY <1>0, <2>0 DEF SocketOK, StateOK, SocketAt
  <2>2. CASE x \in withdrawn \ forgotten
    <3>1. PICK b \in Calls : Closes(b, socket[x].device)
      BY <1>0, <2>2 DEF WithdrawalsAreUnderWay
    <3>2. CASE b = c
      BY <2>1, <3>1, <3>2 DEF Closes, At, Withdraws
    <3>3. CASE b # c
      BY <1>1, <2>1, <3>1, <3>3 DEF Closes, At, Withdraws
    <3> QED BY <3>2, <3>3
  <2>3. CASE x \notin withdrawn \ forgotten
    <3>1. PICK d \in Devices : x \in connections[d] /\ Closes(c, d)'
      BY <2>3 DEF Withdraw
    <3>2. socket[x].device = d
      BY <1>0, <3>1 DEF PresenceIsReal
    <3> QED BY <2>1, <3>1, <3>2 DEF Closes, At, Withdraws
  <2> QED BY <2>2, <2>3
<1> QED BY <1>2, <1>3, <1>4, <1>5, <1>6, <1>7 DEF IInv

\* The sockets of the device a call works for are closed as it ends.
LEMMA ClosingStep ==
    ASSUME IInv, NEW c \in Calls, NEW d \in Devices, call[c].device = d, CloseAll(d), Done(c),
           UNCHANGED <<active, current, issued, tokens>>
    PROVE  IInv'
<1>0. /\ TypeOK /\ call \in [Calls -> CallType] /\ withdrawn \in SUBSET Sockets
      /\ socket \in [Sockets -> SocketType] /\ connections \in [Devices -> SUBSET Sockets]
      /\ \A x \in Sockets : SocketOK(x)
      /\ \A b \in Calls : CallOK(b)
      /\ PresenceIsReal /\ WithdrawnAreOpen /\ WithdrawalsAreUnderWay
  BY TypeOKIs DEF IInv
<1>1. /\ call' \in [Calls -> CallType] /\ call'[c] = NoCall
      /\ \A b \in Calls \ {c} : call'[b] = call[b]
  BY <1>0, Defaults DEF Done
<1>2. /\ socket' \in [Sockets -> SocketType]
      /\ \A x \in Sockets : socket'[x] = IF x \in connections[d] THEN NoSocket ELSE socket[x]
      /\ connections' \in [Devices -> SUBSET Sockets]
      /\ connections'[d] = {} /\ \A e \in Devices \ {d} : connections'[e] = connections[e]
      /\ withdrawn' = withdrawn \ connections[d]
      /\ forgotten' = forgotten \ connections[d] /\ forgotten \subseteq withdrawn
  BY <1>0, Defaults, TypeOKIs DEF CloseAll
<1>3. NoSocket.pc = "closed" /\ NoCall.pc = "idle"
  BY DEF NoSocket, NoCall
<1>4. \A x \in Sockets : x \in connections[d] <=> socket[x].pc = "open" /\ socket[x].device = d
  BY <1>0 DEF PresenceIsReal, SocketAt
<1>5. TypeOK'
  BY <1>0, <1>1, <1>2, TypeOKIs, TypeOKNext
<1>6. \A x \in Sockets : SocketOK(x)'
  BY <1>0, <1>2, <1>3 DEF SocketOK, StateOK, Unauthorised
<1>7. \A b \in Calls : CallOK(b)'
  BY <1>0, <1>1, <1>3 DEF CallOK
<1>8. PresenceIsReal'
  <2> SUFFICES ASSUME NEW e \in Devices
               PROVE  connections'[e] = {x \in Sockets : socket'[x].pc = "open" /\ socket'[x].device = e}
    BY DEF PresenceIsReal, SocketAt
  <2>1. connections[e] = {x \in Sockets : socket[x].pc = "open" /\ socket[x].device = e}
    BY <1>0 DEF PresenceIsReal, SocketAt
  <2>2. CASE e = d
    BY <1>2, <1>3, <1>4, <2>2
  <2>3. CASE e # d
    BY <1>2, <1>3, <1>4, <2>1, <2>3
  <2> QED BY <2>2, <2>3
<1>9. WithdrawnAreOpen'
  BY <1>0, <1>2 DEF WithdrawnAreOpen, SocketAt
<1>10. WithdrawalsAreUnderWay'
  <2> SUFFICES ASSUME NEW x \in withdrawn' \ forgotten'
               PROVE  \E b \in Calls : Closes(b, socket[x].device)'
    BY DEF WithdrawalsAreUnderWay, Closes, At, Withdraws
  <2>1. x \in withdrawn \ forgotten /\ x \in Sockets /\ x \notin connections[d] /\ socket'[x] = socket[x]
    BY <1>0, <1>2
  <2>2. socket[x].device # d
    BY <1>0, <1>4, <2>1 DEF WithdrawnAreOpen, SocketAt
  <2>3. PICK b \in Calls : Closes(b, socket[x].device)
    BY <1>0, <2>1 DEF WithdrawalsAreUnderWay
  <2>4. b # c
    BY <2>2, <2>3 DEF Closes
  <2> QED BY <1>1, <2>1, <2>3, <2>4 DEF Closes, At, Withdraws
<1> QED BY <1>5, <1>6, <1>7, <1>8, <1>9, <1>10 DEF IInv

\* A call that fails forgets the sockets it was about to close.
LEMMA QueryFailsStep ==
    ASSUME IInv, NEW c \in Calls, QueryFails(c)
    PROVE  IInv'
<1>0. /\ TypeOK /\ call \in [Calls -> CallType] /\ withdrawn \in SUBSET Sockets
      /\ forgotten \subseteq withdrawn
      /\ \A x \in Sockets : SocketOK(x)
      /\ \A b \in Calls : CallOK(b)
      /\ PresenceIsReal /\ WithdrawnAreOpen /\ WithdrawalsAreUnderWay
  BY TypeOKIs DEF IInv
<1>1. /\ call' \in [Calls -> CallType] /\ call'[c] = NoCall
      /\ \A b \in Calls \ {c} : call'[b] = call[b]
      /\ UNCHANGED <<active, current, issued, tokens, socket, connections, withdrawn>>
  BY <1>0, Defaults DEF QueryFails, Done
<1>2. forgotten' = forgotten \cup {k \in withdrawn : Closes(c, socket[k].device)}
  BY DEF QueryFails
<1>3. TypeOK'
  BY <1>0, <1>1, <1>2, TypeOKIs, TypeOKNext
<1>4. \A x \in Sockets : SocketOK(x)'
  BY <1>0, <1>1 DEF SocketOK, StateOK, Unauthorised
<1>5. \A b \in Calls : CallOK(b)'
  BY <1>0, <1>1 DEF CallOK, NoCall
<1>6. PresenceIsReal' /\ WithdrawnAreOpen'
  BY <1>0, <1>1 DEF PresenceIsReal, WithdrawnAreOpen, SocketAt
<1>7. WithdrawalsAreUnderWay'
  <2> SUFFICES ASSUME NEW x \in withdrawn' \ forgotten'
               PROVE  \E b \in Calls : Closes(b, socket[x].device)'
    BY DEF WithdrawalsAreUnderWay, Closes, At, Withdraws
  <2>1. x \in withdrawn \ forgotten /\ ~Closes(c, socket[x].device)
    BY <1>1, <1>2
  <2>2. PICK b \in Calls : Closes(b, socket[x].device)
    BY <1>0, <2>1 DEF WithdrawalsAreUnderWay
  <2> QED BY <1>1, <2>1, <2>2 DEF Closes, At, Withdraws
<1> QED BY <1>3, <1>4, <1>5, <1>6, <1>7 DEF IInv

LEMMA CallSteps ==
    ASSUME IInv, NEW c \in Calls, StartCall(c) \/ ContinueCall(c)
    PROVE  IInv'
<1>0. /\ TypeOK /\ call \in [Calls -> CallType] /\ call[c] \in CallType /\ CallOK(c)
      /\ active \in [Devices -> BOOLEAN] /\ tokens \in SUBSET Credentials
      /\ current \in [Devices -> Credentials \cup {None}]
      /\ issued \in [Credentials -> Devices \cup {None}]
      /\ connections \in [Devices -> SUBSET Sockets]
      /\ socket \in [Sockets -> SocketType] /\ \A x \in Sockets : SocketOK(x)
  BY TypeOKIs DEF IInv
<1>1. call[c].pc \notin {"respond", "disconnect"} => \A d \in Devices : ~Closes(c, d)
  BY DEF Closes, At
\* What no socket can tell from the state it is in.
<1>q. ASSUME UNCHANGED <<active, current, issued, socket>>
      PROVE  /\ socket' \in [Sockets -> SocketType]
             /\ \A x \in Sockets : /\ socket'[x].pc = socket[x].pc
                                  /\ socket'[x].device = socket[x].device
                                  /\ SocketOK(x)'
  BY <1>0, <1>q DEF SocketOK, StateOK, Unauthorised
\* A call that changes nothing but where it is, and perhaps signs a token.
<1>2. ASSUME NEW r \in CallType, call' = [call EXCEPT ![c] = r],
             r.pc # "idle" => r.device \in Devices,
             r.pc = "login" => r.credential \in Credentials,
             call[c].pc \notin {"respond", "disconnect"},
             tokens' \in SUBSET Credentials,
             UNCHANGED <<active, current, issued, socket, connections, withdrawn, forgotten>>
      PROVE  IInv'
  BY <1>0, <1>1, <1>2, <1>q, CallFrame
<1>3. ASSUME NEW pc \in Pcs
      PROVE  /\ [call[c] EXCEPT !.pc = pc] \in CallType
             /\ [call[c] EXCEPT !.pc = pc].pc = pc
             /\ [call[c] EXCEPT !.pc = pc].device = call[c].device
             /\ [call[c] EXCEPT !.pc = pc].seen = call[c].seen
  BY <1>0 DEF CallType
<1>4. NoCall \in CallType /\ NoCall.pc = "idle"
  BY Defaults DEF NoCall
<1>a. ASSUME NEW d \in Devices, NEW change \in Changes, StartUpdate(c, d, change) PROVE IInv'
  <2> DEFINE r == [NoCall EXCEPT !.pc = "saveRead", !.device = d, !.change = change,
                                 !.seen = Preloaded(d, change)]
  <2>1. Preloaded(d, change) \in BOOLEAN
    BY <1>0 DEF Preloaded
  <2>2. r \in CallType /\ r.device = d /\ r.pc = "saveRead"
    BY <2>1 DEF CallType, NoCall, Pcs
  <2> QED BY <1>0, <1>2, <1>a, <2>2 DEF StartUpdate, At
<1>b. ASSUME NEW d \in Devices, StartActivation(c, d) PROVE IInv'
  <2> DEFINE r == [NoCall EXCEPT !.pc = "issue", !.device = d]
  <2>1. r \in CallType /\ r.device = d /\ r.pc = "issue"
    BY Defaults DEF CallType, NoCall, Pcs
  <2> QED BY <1>0, <1>2, <1>b, <2>1 DEF StartActivation, At
<1>c. ASSUME NEW d \in Devices, NEW cr \in Credentials, StartLogin(c, d, cr) PROVE IInv'
  <2> DEFINE r == [NoCall EXCEPT !.pc = "login", !.device = d, !.credential = cr]
  <2>1. r \in CallType /\ r.device = d /\ r.credential = cr
    BY Defaults DEF CallType, NoCall, Pcs
  <2> QED BY <1>0, <1>2, <1>c, <2>1 DEF StartLogin, At
<1>d. CASE Login(c)
  <2>1. call[c].pc = "login" /\ call[c].device \in Devices /\ call' = [call EXCEPT ![c] = NoCall]
    BY <1>0, <1>d DEF Login, At, CallOK, Done
  <2>2. tokens' \in SUBSET Credentials
    BY <1>0, <1>d, <2>1 DEF Login, CallOK
  <2>3. UNCHANGED <<active, current, issued, socket, connections, withdrawn, forgotten>>
    BY <1>d DEF Login
  <2> QED BY <1>2, <1>4, <2>1, <2>2, <2>3
<1>e. CASE SaveRead(c)
  <2>1. PICK pc \in {"saveWrite", "respond"} : Goto(c, pc)
    BY <1>e DEF SaveRead
  <2>2. /\ call[c].pc = "saveRead" /\ call[c].device \in Devices /\ pc \in Pcs
        /\ call' = [call EXCEPT ![c] = [call[c] EXCEPT !.pc = pc]]
        /\ UNCHANGED <<active, current, issued, tokens, socket, connections, withdrawn, forgotten>>
    BY <1>0, <1>e, <2>1 DEF SaveRead, At, CallOK, Goto, Pcs
  <2> QED BY <1>0, <1>2, <1>3, <2>1, <2>2
<1>f. CASE SaveWrite(c)
  <2> DEFINE r == [call[c] EXCEPT !.pc = "respond"]
  <2> PICK d : d = call[c].device
    OBVIOUS
  <2>1. /\ call[c].pc = "saveWrite" /\ d \in Devices /\ call' = [call EXCEPT ![c] = r]
        /\ active' = [active EXCEPT ![d] = call[c].seen] /\ call[c].seen \in BOOLEAN
        /\ UNCHANGED <<current, issued, tokens, connections>>
    BY <1>0, <1>f DEF SaveWrite, At, CallOK, Goto, CallType
  <2>2. r \in CallType /\ r.pc = "respond" /\ r.device = d /\ r.seen = call[c].seen
    BY <1>0 DEF CallType, Pcs
  <2>3. active' \in [Devices -> BOOLEAN]
    BY <1>0, <2>1
  <2> HIDE DEF r
  \* Who keeps its credential is authorised again; nobody else has gained anything.
  <2>4. CASE call[c].seen
    <3>1. withdrawn' = withdrawn /\ forgotten' = forgotten /\ socket' = Readmitted(d)
      BY <1>f, <2>4 DEF SaveWrite
    <3>2. ASSUME NEW x \in Sockets
          PROVE  socket'[x] = IF socket[x].device = d /\ socket[x].credential = current[d]
                                THEN [socket[x] EXCEPT !.outcast = FALSE] ELSE socket[x]
      BY <3>1 DEF Readmitted
    <3>3. ASSUME NEW x \in Sockets
          PROVE  /\ socket'[x] \in SocketType
                 /\ socket'[x].pc = socket[x].pc /\ socket'[x].device = socket[x].device
                 /\ socket'[x].credential = socket[x].credential
                 /\ socket'[x].outcast =>
                      socket[x].outcast /\ ~(/\ socket[x].device = d
                                            /\ socket[x].credential = current[d])
      BY <1>0, <3>2 DEF SocketType
    <3>4. socket' \in [Sockets -> SocketType]
      BY <3>1, <3>3 DEF Readmitted
    <3>5. ASSUME NEW x \in Sockets PROVE SocketOK(x)'
      BY <1>0, <2>1, <3>3 DEF SocketOK, StateOK, Unauthorised
    <3> QED BY <1>0, <1>1, <2>1, <2>2, <2>3, <3>1, <3>3, <3>4, <3>5, CallFrame
  <2>5. CASE ~call[c].seen
    <3>1. Withdraw(d) /\ socket' = socket
      BY <1>f, <2>5 DEF SaveWrite
    <3>2. Closes(c, d)'
      BY <1>0, <2>1, <2>2, <2>5 DEF Closes, At, Withdraws
    <3>3. ASSUME NEW x \in Sockets PROVE SocketOK(x)'
      BY <1>0, <2>1, <2>5, <3>1 DEF SocketOK, StateOK, Unauthorised
    <3> QED BY <1>0, <1>1, <2>1, <2>2, <2>3, <3>1, <3>2, <3>3, CallFrame
  <2> QED BY <2>4, <2>5
<1>g. CASE Respond(c)
  <2>1. call[c].pc = "respond" /\ call[c].device \in Devices /\ Done(c)
         /\ UNCHANGED <<active, current, issued, tokens>>
    BY <1>0, <1>g DEF Respond, At, CallOK
  <2>2. CASE Withdraws(c)
    BY <1>g, <2>1, <2>2, ClosingStep DEF Respond
  <2>3. CASE ~Withdraws(c)
    <3>1. UNCHANGED <<connections, socket, withdrawn, forgotten>>
      BY <1>g, <2>3 DEF Respond
    <3>2. \A d \in Devices : ~Closes(c, d)
      BY <2>1, <2>3 DEF Closes, At
    <3> QED BY <1>0, <1>4, <1>q, <2>1, <3>1, <3>2, CallFrame DEF Done
  <2> QED BY <2>2, <2>3
<1>h. ASSUME NEW cr \in Credentials, IssueCredential(c, cr) PROVE IInv'
  <2> DEFINE r == [call[c] EXCEPT !.pc = "disconnect"]
  <2> PICK d : d = call[c].device
    OBVIOUS
  <2>1. /\ call[c].pc = "issue" /\ d \in Devices /\ call' = [call EXCEPT ![c] = r]
        /\ issued[cr] = None
        /\ issued' = [issued EXCEPT ![cr] = d] /\ current' = [current EXCEPT ![d] = cr]
        /\ withdrawn' = withdrawn \cup connections[d] /\ forgotten' = forgotten \ connections[d]
        /\ UNCHANGED <<active, tokens, socket, connections>>
    BY <1>0, <1>h DEF IssueCredential, Enrolment!Issue, At, CallOK, Goto, Withdraw
  <2>2. r \in CallType /\ r.pc = "disconnect" /\ r.device = d
    BY <1>0 DEF CallType, Pcs
  <2> HIDE DEF r
  <2>3. /\ IInv /\ PresenceIsReal /\ WithdrawnAreOpen /\ WithdrawalsAreUnderWay
        /\ withdrawn \in SUBSET Sockets /\ socket \in [Sockets -> SocketType]
        /\ (\A x \in Sockets : SocketOK(x)) /\ (\A b \in Calls : CallOK(b))
    BY TypeOKIs DEF IInv
  <2>4. /\ call' \in [Calls -> CallType] /\ call'[c] = r
        /\ \A b \in Calls \ {c} : call'[b] = call[b]
    BY <1>0, <2>1, <2>2
  <2>5. TypeOK'
    BY <1>0, <2>1, <2>3, <2>4, TypeOKIs, TypeOKNext
  <2>6. ASSUME NEW x \in Sockets PROVE SocketOK(x)'
    <3>1. CASE socket[x].pc # "closed"
      <4>1. socket[x].credential \in Credentials /\ socket[x].credential # cr
        BY <2>1, <2>3, <3>1 DEF SocketOK, StateOK
      <4>2. issued'[socket[x].credential] = issued[socket[x].credential]
        BY <1>0, <2>1, <4>1
      <4>3. \A e \in Devices : current[e] # socket[x].credential
                              => current'[e] # socket[x].credential
        BY <1>0, <2>1, <4>1
      <4> QED BY <2>1, <2>3, <3>1, <4>1, <4>2, <4>3 DEF SocketOK, StateOK, Unauthorised
    <3>2. CASE socket[x].pc = "closed"
      BY <2>1, <3>2 DEF SocketOK, StateOK
    <3> QED BY <3>1, <3>2
  <2>7. \A b \in Calls : CallOK(b)'
    BY <2>1, <2>2, <2>3, <2>4 DEF CallOK
  <2>8. PresenceIsReal'
    BY <2>1, <2>3 DEF PresenceIsReal, SocketAt
  <2>9. WithdrawnAreOpen'
    BY <2>1, <2>3 DEF WithdrawnAreOpen, PresenceIsReal, SocketAt
  <2>10. ASSUME NEW x \in withdrawn' \ forgotten'
         PROVE  \E b \in Calls : Closes(b, socket[x].device)'
    <3>1. CASE x \in withdrawn \ forgotten
      <4>1. PICK b \in Calls : Closes(b, socket[x].device)
        BY <2>3, <3>1 DEF WithdrawalsAreUnderWay
      <4>2. b # c
        BY <2>1, <4>1 DEF Closes, At
      <4> QED BY <2>1, <2>4, <4>1, <4>2 DEF Closes, At, Withdraws
    <3>2. CASE x \in connections[d]
      <4>1. socket[x].device = d
        BY <2>1, <2>3, <3>2 DEF PresenceIsReal
      <4> QED BY <2>1, <2>2, <2>4, <4>1 DEF Closes, At
    <3> QED BY <2>1, <3>1, <3>2
  <2>11. WithdrawalsAreUnderWay'
    BY <2>10 DEF WithdrawalsAreUnderWay, Closes, At, Withdraws
  <2> QED BY <2>5, <2>6, <2>7, <2>8, <2>9, <2>11 DEF IInv
<1>i. CASE RejectActivation(c)
  BY <1>0, <1>2, <1>4, <1>i DEF RejectActivation, At, Done
<1>j. CASE DisconnectDevice(c)
  <2>1. call[c].pc = "disconnect" /\ call[c].device \in Devices /\ Done(c)
         /\ CloseAll(call[c].device) /\ UNCHANGED <<active, current, issued, tokens>>
    BY <1>0, <1>j DEF DisconnectDevice, At, CallOK
  <2> QED BY <2>1, ClosingStep
<1> QED BY <1>a, <1>b, <1>c, <1>d, <1>e, <1>f, <1>g, <1>h, <1>i, <1>j DEF StartCall, ContinueCall

-----------------------------------------------------------------------------
(* The theorems.                                                           *)

LEMMA Initially == Init => IInv
<1> SUFFICES ASSUME Init PROVE IInv
  OBVIOUS
<1>1. TypeOK
  BY Defaults, TypeOKIs DEF Init
<1>2. \A k \in Sockets : socket[k].pc = "closed"
  BY DEF Init, NoSocket
<1>3. \A c \in Calls : call[c].pc = "idle"
  BY DEF Init, NoCall
<1>4. connections = [d \in Devices |-> {}] /\ withdrawn = {} /\ forgotten = {}
  BY DEF Init
<1> QED BY <1>1, <1>2, <1>3, <1>4
        DEF IInv, SocketOK, StateOK, CallOK, PresenceIsReal, SocketAt, WithdrawnAreOpen, WithdrawalsAreUnderWay

LEMMA CrashStep ==
    ASSUME IInv, Crash
    PROVE  IInv'
<1>1. TypeOK'
  BY Defaults, TypeOKIs, TypeOKNext DEF IInv, Crash
<1>2. \A k \in Sockets : socket'[k].pc = "closed"
  BY DEF Crash, NoSocket
<1>3. \A c \in Calls : call'[c].pc = "idle"
  BY DEF Crash, NoCall
<1>4. connections' = [d \in Devices |-> {}] /\ withdrawn' = {} /\ forgotten' = {}
  BY DEF Crash
<1> QED BY <1>1, <1>2, <1>3, <1>4
        DEF IInv, SocketOK, StateOK, CallOK, PresenceIsReal, SocketAt, WithdrawnAreOpen, WithdrawalsAreUnderWay

\* The inductive invariant of sockets, the registry and the calls holds of every behaviour.
THEOREM Invariance == Spec => []IInv
<1>1. ASSUME IInv, [Next]_vars
      PROVE  IInv'
  <2>1. CASE UNCHANGED vars
    BY <1>1, <2>1 DEF vars, IInv, TypeOK, SocketOK, StateOK, Unauthorised, CallOK, PresenceIsReal, SocketAt,
                      WithdrawnAreOpen, WithdrawalsAreUnderWay, Closes, At, Withdraws
  <2> QED BY <1>1, <2>1, SocketSteps, CallSteps, QueryFailsStep, CrashStep DEF Next
<1> QED BY <1>1, Initially, PTL DEF Spec

\* Every variable of the sockets and calls keeps its shape.
THEOREM TypeCorrect == Spec => []TypeOK
<1>1. IInv => TypeOK
  BY DEF IInv
<1> QED BY <1>1, Invariance, PTL

\* The registry holds the open sockets of each device and no others, for any
\* number of reconnections, withdrawals and crashes.
THEOREM PresenceIsTrue == Spec => []PresenceIsReal
<1>1. IInv => PresenceIsReal
  BY DEF IInv
<1> QED BY <1>1, Invariance, PTL

\* Whoever was registered when the authorization of its device was withdrawn is
\* about to be closed by some call, if the one that withdrew it has not failed
\* after its UPDATE or COMMIT took effect.
THEOREM WithdrawalsAreNotForgotten == Spec => []WithdrawalsAreUnderWay
<1>1. IInv => WithdrawalsAreUnderWay
  BY DEF IInv
<1> QED BY <1>1, Invariance, PTL

\* Who has no right to a connection at any moment of its handshake, because of
\* isActive, of its credential, or of first the one and then the other, never
\* opens a socket.
THEOREM OutcastsNeverGetIn == Spec => []OutcastsStayOut
<1>1. IInv => OutcastsStayOut
  BY DEF IInv, OutcastsStayOut, SocketOK, StateOK, SocketAt
<1> QED BY <1>1, Invariance, PTL
=============================================================================
