-------------------------- MODULE Signaling_proofs --------------------------
(***************************************************************************)
(* Inductive is an inductive invariant of Signaling, for any number of     *)
(* sessions, sockets and messages.  From it: the rooms hold the two ends   *)
(* only, and nothing that arrives after a close is relayed.  With it, also *)
(* inductive: who is in a room knows of every peer that did not enter it   *)
(* behind dead sockets, and one of two peers always knows of the other.    *)
(***************************************************************************)
EXTENDS Signaling, TLAPS

LEMMA NoCallType ==
  /\ NoCall \in [pc : Pcs, socket : Sockets \cup {None},
                 who : Devices \cup Technicians \cup {None},
                 sess : Sessions \cup {None}, late : BOOLEAN]
  /\ NoCall.pc = "idle" /\ NoCall.socket = None
  BY DEF NoCall, Pcs

LEMMA KnowingType ==
  ASSUME NEW told, NEW r, NEW g
  PROVE  Knowing(told, r, g) \in [Sockets -> SUBSET Sessions]
  BY DEF Knowing

LEMMA UnnoticedType ==
  ASSUME NEW m, NEW r \in [Sessions -> SUBSET Sockets], NEW g, NEW h
  PROVE  Unnoticed(m, r, g, h) \in [Sessions -> SUBSET Sockets]
  BY DEF Unnoticed

LEMMA InitInductive ==
  ASSUME Init
  PROVE  Inductive
<1>1. TypeOK
  BY NoCallType DEF Init, TypeOK, NoRows, NoRow, Sockets
<1>2. \A c \in Calls : Free(c) /\ call[c].pc = "idle"
  BY NoCallType DEF Init, Free, At
<1>3. CallsOK /\ JoinsOK /\ NothingAfterClose
  BY <1>2 DEF CallsOK, JoinsOK, NothingAfterClose, Joining, At
<1> QED
  BY <1>1, <1>3 DEF Init, Inductive, SessionsOK, RoomsAreTheirs, OneSessionEach, NoRows

-----------------------------------------------------------------------------
(* The environment.                                                        *)

LEMMA SessionOpensStep ==
  ASSUME Inductive, NEW s \in Sessions, NEW d \in Devices, NEW t \in Technicians,
         Opens(s, d, t), UNCHANGED <<identity, joined, room, knowledge, call>>
  PROVE  Inductive'
<1>1. /\ session[s] = NoRow
      /\ session' = [session EXCEPT ![s] = [status |-> "LIVE", device |-> d, technician |-> t]]
      /\ UNCHANGED <<identity, joined, room, gone, heard, masked, hasty, call>>
  BY DEF Opens, Inductive, SessionsOK, knowledge
<1>2. TypeOK'
  BY <1>1 DEF Inductive, TypeOK
<1>3. SessionsOK'
  BY <1>1 DEF Inductive, TypeOK, SessionsOK
<1>4. CallsOK'
  BY <1>1 DEF Inductive, TypeOK, CallsOK, NoRow, EndOf, Free, At
<1>5. RoomsAreTheirs'
  BY <1>1 DEF Inductive, TypeOK, RoomsAreTheirs, NoRow, EndOf
<1>6. JoinsOK' /\ OneSessionEach'
  BY <1>1 DEF Inductive, JoinsOK, OneSessionEach, Joining
<1> QED
  BY <1>1, <1>2, <1>3, <1>4, <1>5, <1>6 DEF Inductive, NothingAfterClose, At

LEMMA SessionClosesStep ==
  ASSUME Inductive, NEW s \in Sessions, Closes(s),
         UNCHANGED <<identity, joined, room, knowledge, call>>
  PROVE  Inductive'
<1>1. /\ session[s].status = "LIVE"
      /\ session' = [session EXCEPT ![s].status = "CLOSED"]
      /\ UNCHANGED <<identity, joined, room, gone, heard, masked, hasty, call>>
  BY DEF Closes, knowledge
<1>2. TypeOK'
  <2>0. session[s] \in [status : {"ABSENT", "LIVE", "CLOSED"},
                        device : Devices \cup {None}, technician : Technicians \cup {None}]
    BY DEF Inductive, TypeOK
  <2>1. [session[s] EXCEPT !.status = "CLOSED"] \in
           [status : {"ABSENT", "LIVE", "CLOSED"},
            device : Devices \cup {None}, technician : Technicians \cup {None}]
    BY <2>0
  <2> QED
    BY <1>1, <2>1 DEF Inductive, TypeOK
<1>3. SessionsOK'
  BY <1>1 DEF Inductive, TypeOK, SessionsOK
<1>4. CallsOK'
  BY <1>1 DEF Inductive, TypeOK, CallsOK, EndOf, Free, At
<1>5. RoomsAreTheirs'
  BY <1>1 DEF Inductive, TypeOK, RoomsAreTheirs, EndOf
<1>6. JoinsOK' /\ OneSessionEach'
  BY <1>1 DEF Inductive, JoinsOK, OneSessionEach, Joining
<1> QED
  BY <1>1, <1>2, <1>3, <1>4, <1>5, <1>6 DEF Inductive, NothingAfterClose, At

\* A socket's identity is of its own namespace.
LEMMA ConnectsStep ==
  ASSUME Inductive, NEW k \in Sockets, NEW who,
         \/ k \in DeviceSockets /\ who \in Devices
         \/ k \in TechnicianSockets /\ who \in Technicians,
         Connects(k, who)
  PROVE  Inductive'
<1>1. /\ identity[k] = None /\ \A c \in Calls : call[c].socket # k
      /\ identity' = [identity EXCEPT ![k] = who]
      /\ UNCHANGED <<session, joined, room, gone, heard, masked, hasty, call>>
  BY DEF Connects, knowledge
<1>2. TypeOK'
  BY <1>1, EndsAreApart DEF Inductive, TypeOK, Sockets
<1>3. CallsOK'
  BY <1>1 DEF Inductive, TypeOK, CallsOK, EndOf, Free, At
<1>4. RoomsAreTheirs'
  BY <1>1 DEF Inductive, TypeOK, RoomsAreTheirs, EndOf
<1>5. JoinsOK' /\ OneSessionEach'
  BY <1>1 DEF Inductive, TypeOK, JoinsOK, OneSessionEach, Joining
<1> QED
  BY <1>1, <1>2, <1>3, <1>4, <1>5 DEF Inductive, SessionsOK, NothingAfterClose, At

LEMMA VanishesStep ==
  ASSUME Inductive, NEW k \in Sockets, Vanishes(k)
  PROVE  Inductive'
<1>1. /\ gone' = gone \cup {k}
      /\ heard' = Knowing(Nobody, room, gone')
      /\ masked' = Unnoticed(masked, room, gone', heard')
      /\ UNCHANGED <<session, identity, joined, room, hasty, call>>
  BY DEF Vanishes
<1>2. TypeOK'
  BY <1>1, KnowingType, UnnoticedType DEF Inductive, TypeOK
<1> QED
  BY <1>1, <1>2 DEF Inductive, SessionsOK, CallsOK, JoinsOK, OneSessionEach, Joining,
     RoomsAreTheirs, NothingAfterClose, At, Free, EndOf

LEMMA DisconnectsStep ==
  ASSUME Inductive, NEW k \in Sockets, Disconnects(k)
  PROVE  Inductive'
<1>1. /\ identity' = [identity EXCEPT ![k] = None]
      /\ joined' = [joined EXCEPT ![k] = None]
      /\ room' = [s \in Sessions |-> room[s] \ {k}]
      /\ gone' = gone \ {k}
      /\ heard' = Knowing(Nobody, room', gone')
      /\ masked' = Unnoticed(masked, room', gone', heard')
      /\ hasty' = hasty \ {k}
      /\ UNCHANGED <<session, call>>
  BY DEF Disconnects
<1>2. TypeOK'
  <2>1. room' \in [Sessions -> SUBSET Sockets]
    BY <1>1 DEF Inductive, TypeOK
  <2>2. masked' \in [Sessions -> SUBSET Sockets]
    BY <1>1, <2>1, UnnoticedType
  <2>3. heard' \in [Sockets -> SUBSET Sessions]
    BY <1>1, KnowingType
  <2>4. /\ identity' \in [Sockets -> Devices \cup Technicians \cup {None}]
        /\ \A m \in DeviceSockets : identity'[m] \in Devices \cup {None}
        /\ \A m \in TechnicianSockets : identity'[m] \in Technicians \cup {None}
    BY <1>1 DEF Inductive, TypeOK, Sockets
  <2>5. /\ joined' \in [Sockets -> Sessions \cup {None}]
        /\ gone' \in SUBSET Sockets /\ hasty' \in SUBSET Sockets
    BY <1>1 DEF Inductive, TypeOK
  <2>6. UNCHANGED <<session, call>>
    BY <1>1
  <2> QED
    BY <2>1, <2>2, <2>3, <2>4, <2>5, <2>6 DEF Inductive, TypeOK
<1>3. CallsOK'
  BY <1>1 DEF Inductive, TypeOK, CallsOK, EndOf, Free, At
<1>4. RoomsAreTheirs'
  BY <1>1 DEF Inductive, TypeOK, RoomsAreTheirs, EndOf
<1>5. JoinsOK' /\ OneSessionEach'
  BY <1>1 DEF Inductive, TypeOK, JoinsOK, OneSessionEach, Joining
<1> QED
  BY <1>1, <1>2, <1>3, <1>4, <1>5 DEF Inductive, SessionsOK, NothingAfterClose, At

\* The process starts again with what Init says, but for the rows.
LEMMA RestartStep ==
  ASSUME Inductive, Restart
  PROVE  Inductive'
<1>1. TypeOK'
  BY NoCallType DEF Inductive, TypeOK, Restart, Sockets
<1>2. \A c \in Calls : call'[c].pc = "idle"
  BY NoCallType DEF Restart
<1>3. CallsOK' /\ JoinsOK' /\ NothingAfterClose'
  BY <1>2 DEF CallsOK, JoinsOK, NothingAfterClose, Joining, Free, At
<1> QED
  BY <1>1, <1>3 DEF Restart, Inductive, SessionsOK, RoomsAreTheirs, OneSessionEach

-----------------------------------------------------------------------------
(* Messages.                                                               *)


\* What is left to show of a step of message c that leaves sessions and
\* sockets alone: what the message is now.
CallOK(k) ==
    /\ k.pc # "idle" =>
         /\ k.socket \in Sockets /\ k.sess \in Sessions
         /\ k.who \in IF k.socket \in DeviceSockets THEN Devices ELSE Technicians
         /\ identity[k.socket] \in {None, k.who}
    /\ k.pc \in {"joinEnter", "relayEmit"} =>
         k.who = EndOf(k.socket, k.sess) /\ session[k.sess].status # "ABSENT"
    /\ k.late /\ k.pc # "idle" => session[k.sess].status = "CLOSED"
    /\ k.pc = "relayEmit" => ~k.late

LEMMA CallsMove ==
  ASSUME Inductive, NEW c \in Calls,
         NEW k \in [pc : Pcs, socket : Sockets \cup {None},
                    who : Devices \cup Technicians \cup {None},
                    sess : Sessions \cup {None}, late : BOOLEAN],
         call' = [call EXCEPT ![c] = k], CallOK(k),
         UNCHANGED <<session, identity>>
  PROVE  /\ CallsOK' /\ NothingAfterClose'
         /\ call' \in [Calls -> [pc : Pcs, socket : Sockets \cup {None},
                                 who : Devices \cup Technicians \cup {None},
                                 sess : Sessions \cup {None}, late : BOOLEAN]]
<1>1. /\ call' \in [Calls -> [pc : Pcs, socket : Sockets \cup {None},
                              who : Devices \cup Technicians \cup {None},
                              sess : Sessions \cup {None}, late : BOOLEAN]]
      /\ call'[c] = k /\ \A b \in Calls \ {c} : call'[b] = call[b]
  BY DEF Inductive, TypeOK
<1>2. NothingAfterClose'
  BY <1>1 DEF Inductive, NothingAfterClose, At, CallOK
<1>3. CallsOK'
  BY <1>1 DEF Inductive, CallsOK, CallOK, Free, At, EndOf
<1> QED
  BY <1>1, <1>2, <1>3

\* Of a step of message c that leaves room and data alone, unless it is of a join
\* that enters, when they are of the same session.
LEMMA JoinsEnd ==
  ASSUME Inductive, NEW c \in Calls,
         \A b \in Calls : b # c => call'[b] = call[b],
         UNCHANGED identity, hasty' = StillHasty(hasty),
         \A k \in Sockets : Joining(c, k)' => Joining(c, k),
         \/ UNCHANGED <<joined, room>>
         \/ \E k \in Sockets, s \in Sessions :
              /\ Joining(c, k) /\ ~Joining(c, k)' /\ identity[k] # None
              /\ joined' = [joined EXCEPT ![k] = s]
              /\ room' = [room EXCEPT ![s] = @ \cup {k}]
  PROVE  JoinsOK' /\ OneSessionEach'
<1>1. \A b \in Calls, k \in Sockets : Joining(b, k)' => Joining(b, k)
  BY DEF Joining
<1>2. \A k \in Sockets \ hasty : \A s \in Sessions :
        k \in room'[s] => joined'[k] = s
  <2>1. CASE UNCHANGED <<joined, room>>
    BY <2>1 DEF Inductive, OneSessionEach
  <2>2. ASSUME NEW k \in Sockets, NEW s \in Sessions,
               Joining(c, k), identity[k] # None,
               joined' = [joined EXCEPT ![k] = s], room' = [room EXCEPT ![s] = @ \cup {k}]
        PROVE  \A m \in Sockets \ hasty : \A x \in Sessions : m \in room'[x] => joined'[m] = x
    <3>1. k \notin hasty => \A x \in Sessions : k \notin room[x]
      BY <2>2, NoneIsNoId DEF Inductive, JoinsOK, OneSessionEach
    <3> QED
      BY <2>2, <3>1 DEF Inductive, TypeOK, OneSessionEach
  <2> QED
    BY <2>1, <2>2
<1>3. OneSessionEach'
  BY <1>2 DEF OneSessionEach, StillHasty, Inductive, TypeOK
<1>4. JoinsOK'
  <2> SUFFICES ASSUME NEW k \in Sockets, k \notin hasty', NEW b \in Calls,
                      Joining(b, k)', identity'[k] # None
               PROVE  joined'[k] = None /\ \A a \in Calls : Joining(a, k)' => a = b
    BY DEF JoinsOK
  <2>1. k \notin hasty /\ Joining(b, k)
    BY <1>1 DEF StillHasty
  <2>2. joined[k] = None /\ \A a \in Calls : Joining(a, k) => a = b
    BY <2>1 DEF Inductive, JoinsOK
  <2>3. joined'[k] = joined[k]
    BY <2>1, <2>2 DEF Inductive, TypeOK
  <2> QED
    BY <1>1, <2>2, <2>3
<1> QED
  BY <1>3, <1>4

LEMMA QueriedStep ==
  ASSUME Inductive, NEW c \in Calls,
         NEW pc, NEW next,
         <<pc, next>> \in {<<"joinQuery", "joinEnter">>, <<"relayQuery", "relayEmit">>},
         Queried(c, pc, next)
  PROVE  Inductive'
<1> DEFINE s == call[c].sess
           who == call[c].who
<1>1. /\ TypeOK /\ SessionsOK /\ RoomsAreTheirs
      /\ call[c].pc = pc /\ hasty' = StillHasty(hasty)
      /\ UNCHANGED <<session, identity, joined, room, gone, heard, masked>>
      /\ hasty' \in SUBSET Sockets
  BY DEF Inductive, TypeOK, Queried, At, StillHasty
<1>2. /\ call[c].socket \in Sockets /\ s \in Sessions
      /\ who \in IF call[c].socket \in DeviceSockets THEN Devices ELSE Technicians
      /\ identity[call[c].socket] \in {None, who}
      /\ call[c].late => session[s].status = "CLOSED"
  BY <1>1 DEF Inductive, CallsOK, Free, At
<1>3. CASE Joinable(s, who) /\ Goto(c, next)
  <2> DEFINE k == [call[c] EXCEPT !.pc = next]
  <2>1. k \in [pc : Pcs, socket : Sockets \cup {None},
               who : Devices \cup Technicians \cup {None},
               sess : Sessions \cup {None}, late : BOOLEAN]
    BY <1>1 DEF TypeOK, Pcs
  <2>2. session[s].status = "LIVE" /\ ~call[c].late
    BY <1>2, <1>3 DEF Joinable
  <2>3. who = EndOf(call[c].socket, s)
    BY <1>1, <1>2, <1>3, EndsAreApart, NoneIsNoId DEF Joinable, EndOf, TypeOK
  <2>4. CallOK(k)
    BY <1>1, <1>2, <2>2, <2>3 DEF CallOK, TypeOK, EndOf
  <2>5. call' = [call EXCEPT ![c] = k]
    BY <1>1, <1>3 DEF Goto, TypeOK
  <2>6. JoinsOK' /\ OneSessionEach'
    <3>1. \A b \in Calls : b # c => call'[b] = call[b]
      BY <2>5 DEF Inductive, TypeOK
    <3>2. \A m \in Sockets : Joining(c, m)' => Joining(c, m)
      BY <1>1, <2>5 DEF Joining, Inductive, TypeOK
    <3> QED
      BY <1>1, <3>1, <3>2, JoinsEnd
  <2> QED
    BY <1>1, <2>1, <2>4, <2>5, <2>6, CallsMove
    DEF Inductive, TypeOK, SessionsOK, RoomsAreTheirs, EndOf
<1>4. CASE Done(c)
  <2>1. CallOK(NoCall)
    BY DEF CallOK, NoCall
  <2>2. JoinsOK' /\ OneSessionEach'
    BY <1>1, <1>4, NoCallType, JoinsEnd DEF Done, Joining, Inductive, TypeOK
  <2> QED
    BY <1>1, <1>4, <2>1, <2>2, NoCallType, CallsMove
    DEF Done, Inductive, TypeOK, SessionsOK, RoomsAreTheirs, EndOf
<1> QED
  BY <1>3, <1>4 DEF Queried

\* The message as it arrives.
LEMMA ArrivesCall ==
  ASSUME Inductive, NEW c \in Calls, NEW k \in Sockets, NEW s \in Sessions,
         NEW pc \in {"joinQuery", "relayQuery"}, Arrives(c, k, s, pc),
         UNCHANGED <<session, identity>>
  PROVE  /\ CallsOK' /\ NothingAfterClose'
         /\ call' \in [Calls -> [pc : Pcs, socket : Sockets \cup {None},
                                 who : Devices \cup Technicians \cup {None},
                                 sess : Sessions \cup {None}, late : BOOLEAN]]
<1> DEFINE m == [pc |-> pc, socket |-> k, who |-> identity[k], sess |-> s,
                 late |-> session[s].status = "CLOSED"]
<1>1. identity[k] \in IF k \in DeviceSockets THEN Devices ELSE Technicians
  BY DEF Arrives, Inductive, TypeOK, Sockets
<1>2. m \in [pc : Pcs, socket : Sockets \cup {None},
             who : Devices \cup Technicians \cup {None},
             sess : Sessions \cup {None}, late : BOOLEAN]
  <2>1. (session[s].status = "CLOSED") \in BOOLEAN
    OBVIOUS
  <2> QED
    BY <1>1, <2>1 DEF Pcs
<1>3. CallOK(m)
  BY <1>1 DEF CallOK
<1> QED
  BY <1>2, <1>3, CallsMove DEF Arrives

LEMMA JoinArrivesStep ==
  ASSUME Inductive, NEW c \in Calls, NEW k \in Sockets, NEW s \in Sessions,
         JoinArrives(c, k, s)
  PROVE  Inductive'
<1>1. /\ Arrives(c, k, s, "joinQuery")
      /\ joined' = [joined EXCEPT ![k] = None]
      /\ room' = RoomsWithout(k)
      /\ heard' = Knowing(Nobody, room', gone)
      /\ masked' = Unnoticed(masked, room', gone, heard')
      /\ hasty' = StillHasty(IF \E b \in Calls : Joining(b, k) THEN hasty \cup {k} ELSE hasty)
      /\ UNCHANGED <<session, identity, gone>>
  BY DEF JoinArrives
<1>2. CallsOK' /\ NothingAfterClose'
  BY <1>1, ArrivesCall
<1>3. TypeOK'
  <2>1. room' \in [Sessions -> SUBSET Sockets]
    BY <1>1 DEF Inductive, TypeOK, RoomsWithout
  <2>2. hasty' \in SUBSET Sockets
    BY <1>1 DEF Inductive, TypeOK, StillHasty
  <2> QED
    BY <1>1, <2>1, <2>2, ArrivesCall, KnowingType, UnnoticedType DEF Inductive, TypeOK
<1>4. RoomsAreTheirs'
  BY <1>1, NoneIsNoId DEF Inductive, TypeOK, RoomsAreTheirs, RoomsWithout, EndOf
<1>5. OneSessionEach'
  <2> SUFFICES ASSUME NEW x \in Sessions, NEW m \in room'[x], m \notin hasty'
               PROVE  joined'[m] = x
    BY DEF OneSessionEach
  <2>1. m \in Sockets /\ m \in room[x] /\ (m = k => joined[k] # x)
    BY <1>1, <1>3, NoneIsNoId DEF Inductive, TypeOK, RoomsWithout
  <2> QED
    BY <1>1, <2>1 DEF Inductive, TypeOK, OneSessionEach, StillHasty
<1>6. JoinsOK'
  <2> SUFFICES ASSUME NEW m \in Sockets, m \notin hasty', NEW b \in Calls,
                      Joining(b, m)', identity'[m] # None
               PROVE  joined'[m] = None /\ \A a \in Calls : Joining(a, m)' => a = b
    BY DEF JoinsOK
  <2>1. /\ m \notin hasty
        /\ m = k => \A a \in Calls : ~Joining(a, k)
    BY <1>1 DEF StillHasty
  <2>2. \A a \in Calls : Joining(a, m)' <=> Joining(a, m) \/ (a = c /\ m = k)
    BY <1>1 DEF Arrives, Free, At, Joining, Inductive, TypeOK
  <2> QED
    BY <1>1, <2>1, <2>2 DEF Inductive, TypeOK, JoinsOK
<1> QED
  BY <1>1, <1>2, <1>3, <1>4, <1>5, <1>6 DEF Inductive, SessionsOK

LEMMA RelayArrivesStep ==
  ASSUME Inductive, NEW c \in Calls, NEW k \in Sockets, NEW s \in Sessions,
         RelayArrives(c, k, s)
  PROVE  Inductive'
<1>1. /\ Arrives(c, k, s, "relayQuery")
      /\ UNCHANGED <<session, identity, joined, room, gone, heard, masked, hasty>>
  BY DEF RelayArrives, knowledge
<1>2. JoinsOK' /\ OneSessionEach'
  BY <1>1 DEF Arrives, Inductive, TypeOK, JoinsOK, OneSessionEach, Joining
<1> QED
  BY <1>1, <1>2, ArrivesCall DEF Inductive, TypeOK, SessionsOK, RoomsAreTheirs, EndOf

LEMMA JoinEntersStep ==
  ASSUME Inductive, NEW c \in Calls, JoinEnters(c)
  PROVE  Inductive'
<1> DEFINE k == call[c].socket
           s == call[c].sess
<1>1. /\ call[c].pc = "joinEnter" /\ Done(c)
      /\ joined' = IF identity[k] # None THEN [joined EXCEPT ![k] = s] ELSE joined
      /\ room' = IF identity[k] # None THEN [room EXCEPT ![s] = @ \cup {k}] ELSE room
      /\ heard' \in [Sockets -> SUBSET Sessions]
      /\ \E m : masked' = Unnoticed(m, room', gone, heard')
      /\ hasty' = StillHasty(hasty)
      /\ UNCHANGED <<session, identity, gone>>
  BY KnowingType DEF JoinEnters, At
<1>2. /\ k \in Sockets /\ s \in Sessions
      /\ identity[k] # None => identity[k] = EndOf(k, s)
  BY <1>1 DEF Inductive, CallsOK, Free, At
<1>3. CallOK(NoCall)
  BY DEF CallOK, NoCall
<1>4. CallsOK' /\ NothingAfterClose'
  BY <1>1, <1>3, NoCallType, CallsMove DEF Done
<1>5. TypeOK'
  <2>1. room' \in [Sessions -> SUBSET Sockets]
    BY <1>1, <1>2 DEF Inductive, TypeOK
  <2>2. masked' \in [Sessions -> SUBSET Sockets]
    <3>1. PICK m : masked' = Unnoticed(m, room', gone, heard')
      BY <1>1
    <3> QED
      BY <2>1, <3>1, UnnoticedType
  <2>3. hasty' \in SUBSET Sockets
    BY <1>1 DEF Inductive, TypeOK, StillHasty
  <2> QED
    BY <1>1, <1>2, <1>3, <2>1, <2>2, <2>3, NoCallType, CallsMove DEF Inductive, TypeOK, Done
<1>6. RoomsAreTheirs'
  BY <1>1, <1>2 DEF Inductive, TypeOK, RoomsAreTheirs, EndOf
<1>7. JoinsOK' /\ OneSessionEach'
  <2>1. /\ \A b \in Calls : b # c => call'[b] = call[b]
        /\ \A m \in Sockets : ~Joining(c, m)'
        /\ Joining(c, k)
    BY <1>1, NoCallType DEF Done, Joining, Inductive, TypeOK
  <2> QED
    BY <1>1, <1>2, <2>1, JoinsEnd
<1> QED
  BY <1>1, <1>4, <1>5, <1>6, <1>7 DEF Inductive, SessionsOK

LEMMA RelayEmitsStep ==
  ASSUME Inductive, NEW c \in Calls, RelayEmits(c)
  PROVE  Inductive'
<1>1. /\ call[c].pc = "relayEmit" /\ Done(c)
      /\ UNCHANGED <<session, identity, joined, room, gone, heard, masked, hasty>>
  BY DEF RelayEmits, knowledge, At
<1>2. CallOK(NoCall)
  BY DEF CallOK, NoCall
<1>3. JoinsOK' /\ OneSessionEach'
  BY <1>1, NoCallType DEF Done, Inductive, TypeOK, JoinsOK, OneSessionEach, Joining
<1> QED
  BY <1>1, <1>2, <1>3, NoCallType, CallsMove
  DEF Done, Inductive, TypeOK, SessionsOK, RoomsAreTheirs, EndOf

-----------------------------------------------------------------------------
LEMMA EnvironmentStep ==
  ASSUME Inductive, Rows \/ Connections \/ Restart
  PROVE  Inductive'
<1>1. ASSUME NEW s \in Sessions, NEW d \in Devices, NEW t \in Technicians, Opens(s, d, t),
             UNCHANGED <<identity, joined, room, knowledge, call>>
      PROVE  Inductive'
  BY <1>1, SessionOpensStep
<1>2. ASSUME NEW k \in DeviceSockets, NEW d \in Devices, Connects(k, d)
      PROVE  Inductive'
  BY <1>2, ConnectsStep DEF Sockets
<1>3. ASSUME NEW k \in TechnicianSockets, NEW t \in Technicians, Connects(k, t)
      PROVE  Inductive'
  BY <1>3, ConnectsStep DEF Sockets
<1> QED
  BY <1>1, <1>2, <1>3, SessionClosesStep, VanishesStep, DisconnectsStep, RestartStep
  DEF Rows, Changes, Connections

LEMMA MessageStep ==
  ASSUME Inductive, NEW c \in Calls, Message(c)
  PROVE  Inductive'
<1>1. CASE JoinQueried(c)
  BY <1>1, QueriedStep DEF JoinQueried
<1>2. CASE RelayQueried(c)
  BY <1>2, QueriedStep DEF RelayQueried
<1> QED
  BY <1>1, <1>2, JoinArrivesStep, RelayArrivesStep, JoinEntersStep, RelayEmitsStep DEF Message

\* The state of rooms, sockets and messages is consistent whatever races.
THEOREM Invariance == Spec => []Inductive
<1>1. Init => Inductive
  BY InitInductive
<1>2. Inductive /\ [Next]_vars => Inductive'
  <2>1. ASSUME Inductive, UNCHANGED vars
        PROVE  Inductive'
    BY <2>1 DEF vars, Inductive, TypeOK, SessionsOK, CallsOK, JoinsOK, OneSessionEach, Joining,
                RoomsAreTheirs, NothingAfterClose, At, Free, EndOf
  <2> QED
    BY <2>1, EnvironmentStep, MessageStep DEF Next
<1> QED
  BY <1>1, <1>2, PTL DEF Spec

\* A room holds sockets of the two ends of its session and of nobody else
\* (findJoinableSession), and who may relay in a session is in its room.
THEOREM RoomsStayTheirs == Spec => []RoomsAreTheirs
<1>1. Inductive => RoomsAreTheirs
  BY DEF Inductive
<1> QED
  BY <1>1, Invariance, PTL

\* A socket whose client waits for its ACKs is in the room of one session at a
\* time, the one its data names (leaveCurrentSession, join).
THEOREM OneSessionAtATime == Spec => []OneSessionEach
<1>1. Inductive => OneSessionEach
  BY DEF Inductive
<1> QED
  BY <1>1, Invariance, PTL

\* A message that arrived once the session was CLOSED is never relayed
\* (authorizeRelay).
THEOREM CloseCutsRelay == Spec => []NothingAfterClose
<1>1. Inductive => NothingAfterClose
  BY DEF Inductive
<1> QED
  BY <1>1, Invariance, PTL

-----------------------------------------------------------------------------
(* The peers are announced.                                                *)

LEMMA PeersAreMutual ==
  ASSUME NEW k \in Sockets, NEW p \in Sockets
  PROVE  p \in PeerSide(k) <=> k \in PeerSide(p)
  BY EndsAreApart DEF PeerSide, Sockets

\* Who knew, or is told, knows as long as a peer is there.
LEMMA Knows ==
  ASSUME NEW told, NEW r, NEW g, NEW s \in Sessions, NEW k \in Sockets, NEW p,
         k \in r[s], p \in r[s], p \in PeerSide(k), p \notin g,
         s \in heard[k] \/ k \in told[s]
  PROVE  s \in Knowing(told, r, g)[k]
  BY DEF Knowing

\* Who is not masked any more is known to all its peers.
LEMMA Noticed ==
  ASSUME NEW m, NEW r, NEW g, NEW h, NEW s \in Sessions, NEW k \in Sockets, NEW p \in Sockets,
         k \in r[s] \ g, p \in r[s] \ g, p \in PeerSide(k),
         p \in m[s], p \notin Unnoticed(m, r, g, h)[s]
  PROVE  s \in h[k]
<1>1. k \in (r[s] \cap PeerSide(p)) \ g
  BY PeersAreMutual
<1> QED
  BY <1>1 DEF Unnoticed

\* Only peers that have left rooms or vanished.
Leaving ==
    /\ \A s \in Sessions : room'[s] \subseteq room[s] /\ room'[s] \ gone' \subseteq room[s] \ gone
    /\ heard' = Knowing(Nobody, room', gone')
    /\ masked' = Unnoticed(masked, room', gone', heard')

LEMMA LeavingSteps ==
  ASSUME Inductive, NEW k \in Sockets,
         Vanishes(k) \/ Disconnects(k) \/ \E c \in Calls, s \in Sessions : JoinArrives(c, k, s)
  PROVE  Leaving
<1>1. CASE Vanishes(k)
  BY <1>1 DEF Leaving, Vanishes
<1>2. CASE Disconnects(k)
  BY <1>2 DEF Leaving, Disconnects
<1>3. ASSUME NEW c \in Calls, NEW s \in Sessions, JoinArrives(c, k, s)
      PROVE  Leaving
  BY <1>3 DEF Leaving, JoinArrives, RoomsWithout, Inductive, TypeOK
<1> QED
  BY <1>1, <1>2, <1>3

LEMMA LeavingKeepsAnnounced ==
  ASSUME TypeOK, PeersAreAnnounced, Leaving
  PROVE  PeersAreAnnounced'
<1> SUFFICES ASSUME NEW s \in Sessions, NEW k \in room'[s] \ gone',
                    NEW p \in room'[s] \ gone', p \in PeerSide(k), p \notin masked'[s]
             PROVE  s \in heard'[k]
  BY DEF PeersAreAnnounced, PeersIn
<1>1. k \in room[s] \ gone /\ p \in room[s] \ gone /\ k \in Sockets /\ p \in Sockets
  BY DEF Leaving, TypeOK
<1>2. CASE p \in masked[s]
  BY <1>1, <1>2, Noticed DEF Leaving
<1>3. CASE p \notin masked[s]
  <2>1. s \in heard[k]
    BY <1>1, <1>3 DEF PeersAreAnnounced, PeersIn
  <2> QED
    BY <1>1, <2>1, Knows DEF Leaving
<1> QED
  BY <1>2, <1>3

LEMMA LeavingKeepsOneEnd ==
  ASSUME TypeOK, OneEndKnows, Leaving
  PROVE  OneEndKnows'
<1> SUFFICES ASSUME NEW s \in Sessions, NEW k \in room'[s] \ gone',
                    NEW p \in room'[s] \ gone', p \in PeerSide(k)
             PROVE  s \in heard'[k] \/ s \in heard'[p]
  BY DEF OneEndKnows
<1>1. k \in room[s] \ gone /\ p \in room[s] \ gone /\ k \in Sockets /\ p \in Sockets
  BY DEF Leaving, TypeOK
<1>2. k \in PeerSide(p)
  BY <1>1, PeersAreMutual
<1>3. s \in heard[k] \/ s \in heard[p]
  BY <1>1 DEF OneEndKnows
<1>4. s \in heard[k] => s \in heard'[k]
  BY <1>1, Knows DEF Leaving
<1>5. s \in heard[p] => s \in heard'[p]
  BY <1>1, <1>2, Knows DEF Leaving
<1> QED
  BY <1>3, <1>4, <1>5

\* What socket j does when it enters the room of session x, if it does.
Entering(j, x) ==
    /\ j \in Sockets /\ x \in Sessions
    /\ gone' = gone
    /\ \/ room' = room
       \/ room' = [room EXCEPT ![x] = @ \cup {j}]
    /\ \E told, m :
         /\ told[x] = ToldByJoin(j, x)
         /\ m \in [Sessions -> SUBSET Sockets]
         /\ \A s \in Sessions : masked[s] \subseteq m[s]
         /\ Masked(j, x) => j \in m[x]
         /\ heard' = Knowing(told, room', gone)
         /\ masked' = Unnoticed(m, room', gone, heard')

LEMMA JoinEntersIsEntering ==
  ASSUME Inductive, NEW c \in Calls, JoinEnters(c)
  PROVE  Entering(call[c].socket, call[c].sess)
<1> DEFINE j == call[c].socket
           x == call[c].sess
           told == [Nobody EXCEPT ![x] = ToldByJoin(j, x)]
           m == [masked EXCEPT ![x] = @ \cup IF Masked(j, x) THEN {j} ELSE {}]
<1>1. j \in Sockets /\ x \in Sessions
  BY DEF Inductive, CallsOK, JoinEnters, Free, At
<1>2. told[x] = ToldByJoin(j, x)
  BY <1>1 DEF Nobody
<1>3. /\ m \in [Sessions -> SUBSET Sockets]
      /\ \A s \in Sessions : masked[s] \subseteq m[s]
      /\ Masked(j, x) => j \in m[x]
  BY <1>1 DEF Inductive, TypeOK
<1>4. /\ gone' = gone
      /\ \/ room' = room
         \/ room' = [room EXCEPT ![x] = @ \cup {j}]
      /\ heard' = Knowing(told, room', gone)
      /\ masked' = Unnoticed(m, room', gone, heard')
  BY DEF JoinEnters
<1> HIDE DEF told, m
<1> QED
  BY <1>1, <1>2, <1>3, <1>4 DEF Entering

LEMMA EnteringAnnounces ==
  ASSUME TypeOK, PeersAreAnnounced, NEW j, NEW x, Entering(j, x)
  PROVE  PeersAreAnnounced'
<1> PICK told, m :
         /\ told[x] = ToldByJoin(j, x)
         /\ m \in [Sessions -> SUBSET Sockets]
         /\ \A s \in Sessions : masked[s] \subseteq m[s]
         /\ Masked(j, x) => j \in m[x]
         /\ heard' = Knowing(told, room', gone)
         /\ masked' = Unnoticed(m, room', gone, heard')
  BY DEF Entering
<1>1. /\ j \in Sockets /\ x \in Sessions /\ gone' = gone
      /\ \A s \in Sessions : room'[s] = room[s] \/ (s = x /\ room'[s] = room[s] \cup {j})
  BY DEF Entering, TypeOK
<1> SUFFICES ASSUME NEW s \in Sessions, NEW k \in room'[s] \ gone,
                    NEW p \in room'[s] \ gone, p \in PeerSide(k), p \notin masked'[s]
             PROVE  s \in heard'[k]
  BY <1>1 DEF PeersAreAnnounced, PeersIn
<1>2. k \in Sockets /\ p \in Sockets /\ k \in PeerSide(p)
  BY <1>1, PeersAreMutual DEF TypeOK
<1>3. s \in heard[k] \/ k \in told[s] => s \in heard'[k]
  BY <1>2, Knows
<1>4. CASE p \in m[s]
  BY <1>2, <1>4, Noticed
\* A peer that was there before.
<1>5. CASE k \in room[s] /\ p \in room[s] /\ p \notin m[s]
  BY <1>3, <1>5 DEF PeersAreAnnounced, PeersIn
\* The one who joins is told by its ACK.
<1>6. CASE s = x /\ k = j /\ p \in room[x]
  <2>1. PeersIn(j, x) # {}
    BY <1>6 DEF PeersIn
  <2> QED
    BY <1>3, <1>6, <2>1 DEF ToldByJoin
\* Its peers are, unless somebody of its end was there and they knew.
<1>7. CASE s = x /\ p = j /\ k \in room[x] /\ p \notin m[s]
  <2>1. k \in PeersIn(j, x)
    BY <1>2, <1>7 DEF PeersIn
  <2>2. CASE ~OwnSideIn(j, x)
    BY <1>3, <1>7, <2>1, <2>2 DEF ToldByJoin, AnnouncesJoin
  <2>3. CASE OwnSideIn(j, x)
    <3>1. PICK q \in room[x] \cap OwnSide(j) : q \notin gone \cup masked[x]
      BY <1>7, <2>3 DEF Masked
    <3>2. q \in PeerSide(k)
      BY <1>1, <1>2, <1>7, EndsAreApart DEF OwnSide, PeerSide, Sockets
    <3>3. s \in heard[k]
      BY <1>7, <3>1, <3>2 DEF PeersAreAnnounced, PeersIn
    <3> QED
      BY <1>3, <3>3
  <2> QED
    BY <2>2, <2>3
<1>8. k # p
  BY <1>2, EndsAreApart DEF PeerSide, Sockets
<1> QED
  BY <1>1, <1>4, <1>5, <1>6, <1>7, <1>8

LEMMA EnteringTellsOneEnd ==
  ASSUME TypeOK, OneEndKnows, NEW j, NEW x, Entering(j, x)
  PROVE  OneEndKnows'
<1> PICK told : /\ told[x] = ToldByJoin(j, x)
                /\ heard' = Knowing(told, room', gone)
  BY DEF Entering
<1>1. /\ j \in Sockets /\ x \in Sessions /\ gone' = gone
      /\ \A s \in Sessions : room'[s] = room[s] \/ (s = x /\ room'[s] = room[s] \cup {j})
  BY DEF Entering, TypeOK
<1> SUFFICES ASSUME NEW s \in Sessions, NEW k \in room'[s] \ gone,
                    NEW p \in room'[s] \ gone, p \in PeerSide(k)
             PROVE  s \in heard'[k] \/ s \in heard'[p]
  BY <1>1 DEF OneEndKnows
<1>2. k \in Sockets /\ p \in Sockets /\ k \in PeerSide(p)
  BY <1>1, PeersAreMutual DEF TypeOK
<1>3. /\ s \in heard[k] \/ k \in told[s] => s \in heard'[k]
      /\ s \in heard[p] \/ p \in told[s] => s \in heard'[p]
  BY <1>2, Knows
<1>4. CASE k \in room[s] /\ p \in room[s]
  BY <1>3, <1>4 DEF OneEndKnows
<1>5. CASE s = x /\ k = j /\ p \in room[x]
  <2>1. PeersIn(j, x) # {}
    BY <1>5 DEF PeersIn
  <2> QED
    BY <1>3, <1>5, <2>1 DEF ToldByJoin
<1>6. CASE s = x /\ p = j /\ k \in room[x]
  <2>1. PeersIn(j, x) # {}
    BY <1>2, <1>6 DEF PeersIn
  <2> QED
    BY <1>3, <1>6, <2>1 DEF ToldByJoin
<1>7. k # p
  BY <1>2, EndsAreApart DEF PeerSide, Sockets
<1> QED
  BY <1>1, <1>4, <1>5, <1>6, <1>7

\* Every step is of one of three kinds.
LEMMA StepKinds ==
  ASSUME Inductive, [Next]_vars
  PROVE  \/ UNCHANGED <<room, gone, heard, masked>>
         \/ Leaving
         \/ \E j, x : Entering(j, x)
         \/ Restart
<1>1. CASE UNCHANGED vars
  BY <1>1 DEF vars
<1>2. CASE Rows \/ Connections
  BY <1>2, LeavingSteps
  DEF Rows, Connections, Connects, knowledge
<1>3. ASSUME NEW c \in Calls, Message(c)
      PROVE  \/ UNCHANGED <<room, gone, heard, masked>>
             \/ Leaving
             \/ \E j, x : Entering(j, x)
  BY <1>3, LeavingSteps, JoinEntersIsEntering
  DEF Message, JoinQueried, RelayQueried, Queried, RelayArrives, RelayEmits, knowledge
<1> QED
  BY <1>1, <1>2, <1>3 DEF Next

\* Who is in a room knows of every peer there, except of those that came back
\* behind a dead socket of their own end (join, announceToPeer).
THEOREM PeersStayAnnounced == Spec => []PeersAreAnnounced
<1>1. Init => PeersAreAnnounced
  BY DEF Init, PeersAreAnnounced
<1>2. Inductive /\ PeersAreAnnounced /\ [Next]_vars => PeersAreAnnounced'
  <2>1. ASSUME PeersAreAnnounced, UNCHANGED <<room, gone, heard, masked>>
        PROVE  PeersAreAnnounced'
    BY <2>1 DEF PeersAreAnnounced, PeersIn
  <2>2. Restart => PeersAreAnnounced'
    BY DEF Restart, PeersAreAnnounced
  <2> QED
    BY <2>1, <2>2, StepKinds, LeavingKeepsAnnounced, EnteringAnnounces DEF Inductive
<1> QED
  BY <1>1, <1>2, Invariance, PTL DEF Spec

\* Of two ends in a room one knows, also when clients vanish and come back (join
\* answers the one that comes last).
THEOREM OneEndAlwaysKnows == Spec => []OneEndKnows
<1>1. Init => OneEndKnows
  BY DEF Init, OneEndKnows
<1>2. Inductive /\ OneEndKnows /\ [Next]_vars => OneEndKnows'
  <2>1. ASSUME OneEndKnows, UNCHANGED <<room, gone, heard, masked>>
        PROVE  OneEndKnows'
    BY <2>1 DEF OneEndKnows
  <2>2. Restart => OneEndKnows'
    BY DEF Restart, OneEndKnows
  <2> QED
    BY <2>1, <2>2, StepKinds, LeavingKeepsOneEnd, EnteringTellsOneEnd DEF Inductive
<1> QED
  BY <1>1, <1>2, Invariance, PTL DEF Spec
=============================================================================
