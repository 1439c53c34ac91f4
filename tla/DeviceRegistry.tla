---------------------------- MODULE DeviceRegistry ----------------------------
(***************************************************************************)
(* DevicesService.create: a new device gets a random public id, and the    *)
(* INSERT is tried again with another one if the id is taken.              *)
(***************************************************************************)
EXTENDS Naturals

CONSTANTS
    Devices,     \* the ids of rows
    PublicIds,
    MaxAttempts, \* PUBLIC_ID_MAX_ATTEMPTS
    Calls,
    None

VARIABLES
    publicId,  \* of each device that exists
    creation   \* of each call: how far its create has come; "made" is history

registryVars == <<publicId, creation>>

NoCreation == [pc |-> "idle", attempt |-> 0, id |-> None, made |-> FALSE]

Creating(c, pc) == creation[c].pc = pc
Ends(c) == creation' = [creation EXCEPT ![c] = NoCreation]

\* The unique column publicId.
Taken(p) == \E d \in Devices : publicId[d] = p

\* The first attempt, with a random id.
StartCreate(c, p) ==
    /\ Creating(c, "idle")
    /\ creation' = [creation EXCEPT ![c] = [NoCreation EXCEPT !.pc = "insert", !.attempt = 1,
                                                              !.id = p]]
    /\ UNCHANGED publicId

Fault_Retriable(c, collision) == creation[c].attempt < MaxAttempts

\* isRetriableCollision: otherwise handleDBError answers the call.
Retriable(c, collision) == collision /\ creation[c].attempt < MaxAttempts

\* The condition of the loop, after attempt++: otherwise a 500 answers the call.
LoopGoesOn(c) == creation[c].attempt + 1 <= MaxAttempts

Fault_Thrown(c, collision, makes) ==
    IF collision
      THEN \E p \in PublicIds :
             creation' = [creation EXCEPT ![c].pc = "insert", ![c].attempt = @ + 1, ![c].id = p]
      ELSE Ends(c)

\* save() has thrown, and has made a device all the same or not: the next attempt
\* gets another random id, or the call is answered with the error.
Thrown(c, collision, makes) ==
    IF Retriable(c, collision) /\ LoopGoesOn(c)
      THEN \E p \in PublicIds :
             creation' = [creation EXCEPT ![c].pc = "insert", ![c].attempt = @ + 1,
                                          ![c].id = p, ![c].made = @ \/ makes]
      ELSE Ends(c)

\* The INSERT of save().  It waits for another one of the same public id.
InsertDevice(c) ==
    /\ Creating(c, "insert")
    /\ \A b \in Calls : Creating(b, "commit") => creation[b].id # creation[c].id
    /\ IF Taken(creation[c].id)
         THEN Thrown(c, TRUE, FALSE)
         ELSE creation' = [creation EXCEPT ![c].pc = "commit"]
    /\ UNCHANGED publicId

\* The row exists from here on, whether or not save() hears of it.
CommitDevice(c) ==
    /\ Creating(c, "commit")
    /\ \E d \in Devices :                                 \* BOUND: an id is left
         /\ publicId[d] = None
         /\ publicId' = [publicId EXCEPT ![d] = creation[c].id]
    /\ Ends(c) \/ Thrown(c, FALSE, TRUE)

\* A statement fails and nothing is committed.
CreateFails(c) ==
    /\ ~Creating(c, "idle")
    /\ Thrown(c, FALSE, FALSE)
    /\ UNCHANGED publicId

RegistryInit ==
    /\ publicId = [d \in Devices |-> None]
    /\ creation = [c \in Calls |-> NoCreation]

RegistryContinue(c) == InsertDevice(c) \/ CommitDevice(c) \/ CreateFails(c)

-----------------------------------------------------------------------------
(* Properties.                                                             *)

\* Every variable keeps its shape.
RegistryTypeOK ==
    /\ publicId \in [Devices -> PublicIds \cup {None}]
    /\ creation \in [Calls -> [pc : {"idle", "insert", "commit"}, attempt : 0..MaxAttempts,
                               id : PublicIds \cup {None}, made : BOOLEAN]]

\* No create is at another attempt after one that made a device.
OneDeviceEach == \A c \in Calls : ~creation[c].made
=============================================================================
