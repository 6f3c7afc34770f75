---------------------------- MODULE PerplSession ----------------------------
(***************************************************************************)
(* The one socket to Perpl (perplSession.ts) and the orders sent over it   *)
(* (perplOrders.ts 130-200, routes/perp.ts 162-262).  JavaScript runs one  *)
(* callback at a time: an action is one event, with everything that runs   *)
(* before the next await.                                                  *)
(*                                                                         *)
(* A socket that was replaced goes on delivering events: its handlers      *)
(* refer to the session, not to the socket.  What Perpl does with frames   *)
(* is external, and ends with forwarding an order or refusing it: what the *)
(* chain makes of a forwarded one reaches no caller (256-264).             *)
(* Line numbers without a file are perplSession.ts.                        *)
(***************************************************************************)
EXTENDS Naturals, Sequences, FiniteSets

CONSTANTS
    Callers,            \* those who submit, each one batch at a time
    BatchSizes,         \* frames of a batch: the entry and its triggers
    SocketBound,        \* bound: sockets opened in a run
    OrderBound          \* bound: frames built in a run

ASSUME SessionAssumption ==
    /\ BatchSizes \subseteq Nat \ {0} /\ {SocketBound, OrderBound} \subseteq Nat
    /\ IsFiniteSet(Callers)

NoSocket == 0
Sockets  == 1 .. SocketBound
Orders   == 1 .. OrderBound         \* a frame is known by its sn

VARIABLES
    socket, connected, timer,           \* this.socket, state.connected, this.timer
    lastForwarded, requestId, seq,
    awaiting,                           \* the sn that wait for an mt 3
    phase,                              \* of every socket, as the network has it
    up, down,                           \* frames on their way, per socket
    batch,                              \* per caller, the frames still to be sent or answered
    perpl,                              \* external: lfr, what was placed, what was refused
    asked, answer,                      \* observation: frames sent, what submit said of each
    lateClose,                          \* does a close event trail its error by a reconnect
    overlapped                          \* observation: were two batches ever under way

sessionVars == <<socket, connected, timer, lastForwarded, requestId, seq, awaiting, phase,
                 up, down, batch, perpl, asked, answer, lateClose, overlapped>>
idVars      == <<lastForwarded, requestId, seq>>
submitVars  == <<awaiting, batch, asked, answer>>

Frame(rq, sn) == [rq |-> rq, sn |-> sn]

SessionInit ==
    /\ socket = NoSocket /\ connected = FALSE /\ timer = TRUE
    /\ lastForwarded = 0 /\ requestId = 0 /\ seq = 0
    /\ awaiting = {}
    /\ phase = [s \in Sockets |-> "unused"]
    /\ up = [s \in Sockets |-> <<>>] /\ down = [s \in Sockets |-> <<>>]
    /\ batch = [c \in Callers |-> <<>>]
    /\ perpl = [lfr |-> 0, placed |-> {}, refused |-> {}]
    /\ asked = {} /\ answer = [o \in Orders |-> "none"]
    /\ lateClose \in BOOLEAN /\ overlapped = FALSE

-----------------------------------------------------------------------------
(* fail, and the end of the close handler: whatever socket it was about.   *)
Drop ==
    /\ socket' = NoSocket /\ connected' = FALSE
    /\ timer' = TRUE

Lost(s) == up' = [up EXCEPT ![s] = <<>>] /\ down' = [down EXCEPT ![s] = <<>>]

(* The timer's callback: open() unless there is a socket.                  *)
Reconnect ==
    /\ timer
    /\ lateClose \/ \A s \in Sockets : phase[s] # "failed"
    /\ \/ /\ socket = NoSocket
          /\ \E s \in Sockets :
                /\ phase[s] = "unused" /\ \A q \in 1 .. s - 1 : phase[q] # "unused"
                /\ socket' = s
                /\ phase' = [phase EXCEPT ![s] = "opening"]
       \/ socket # NoSocket /\ UNCHANGED <<socket, phase>>
    /\ timer' = FALSE
    /\ UNCHANGED <<connected, idVars, submitVars, up, down, perpl, lateClose, overlapped>>

(* The open event: the sign-in frame is made and sent.  When making it     *)
(* fails, the socket is given up but not closed.                           *)
SignIn(s) ==
    /\ phase[s] = "opening"
    /\ \/ /\ phase' = [phase EXCEPT ![s] = "signing"]
          /\ UNCHANGED <<socket, connected, timer>>
       \/ /\ phase' = [phase EXCEPT ![s] = "failed"]
          /\ Drop
    /\ UNCHANGED <<idVars, submitVars, up, down, perpl, lateClose, overlapped>>

(* External: Perpl lets the socket in and sends the wallet snapshot.       *)
Welcome(s) ==
    /\ phase[s] = "signing"
    /\ phase' = [phase EXCEPT ![s] = "signedIn"]
    /\ down' = [down EXCEPT ![s] = Append(@, [mt |-> "snapshot", lfr |-> perpl.lfr])]
    /\ UNCHANGED <<socket, connected, timer, idVars, submitVars, up, perpl, lateClose, overlapped>>

ErrorEvent(s) ==
    /\ phase[s] \in {"opening", "signing", "signedIn"}
    /\ phase' = [phase EXCEPT ![s] = "failed"]
    /\ Lost(s) /\ Drop
    /\ UNCHANGED <<idVars, submitVars, perpl, lateClose, overlapped>>

(* Behind an error, or on its own when Perpl closes the connection.        *)
CloseEvent(s) ==
    /\ phase[s] \in {"failed", "signing", "signedIn"}
    /\ phase' = [phase EXCEPT ![s] = "closed"]
    /\ Lost(s) /\ Drop
    /\ UNCHANGED <<idVars, submitVars, perpl, lateClose, overlapped>>

(* External: Perpl reads a frame.  Request ids have to increase (107-111), *)
(* and it may refuse an order for reasons of its own.                      *)
PerplReads(s) ==
    /\ phase[s] = "signedIn" /\ up[s] # <<>>
    /\ LET f == Head(up[s])
       IN  \E placed \in (IF f.rq > perpl.lfr THEN BOOLEAN ELSE {FALSE}) :
              /\ perpl' = IF placed
                          THEN [perpl EXCEPT !.lfr = f.rq, !.placed = @ \cup {f.sn}]
                          ELSE [perpl EXCEPT !.refused = @ \cup {f.sn}]
              /\ down' = [down EXCEPT ![s] =
                             Append(@, [mt |-> "status", cid |-> f.sn, ok |-> placed])]
    /\ up' = [up EXCEPT ![s] = Tail(@)]
    /\ UNCHANGED <<socket, connected, timer, idVars, submitVars, phase, lateClose, overlapped>>

-----------------------------------------------------------------------------
Snapshot(s) ==
    /\ down[s] # <<>> /\ Head(down[s]).mt = "snapshot"
    /\ down' = [down EXCEPT ![s] = Tail(@)]
    /\ connected' = TRUE
    /\ lastForwarded' = Head(down[s]).lfr
    /\ UNCHANGED <<socket, timer, requestId, seq, submitVars, phase, up, perpl, lateClose, overlapped>>

(* Definitions named _as_... are never used by the specification: each is   *)
(* the definition below it with a plausible bug.                           *)
NextIds_as_from_snapshot(n) == [i \in 1 .. n |-> lastForwarded + i]

(* nextRequestId, drawn n times in a row.                                  *)
NextIds(n) ==
    LET base == IF requestId > lastForwarded THEN requestId ELSE lastForwarded
    IN  [i \in 1 .. n |-> base + i]

(* The next frame of a batch goes out over the session's socket, which     *)
(* need not be the one the frame before went over.  A send over no socket, *)
(* or one that is not open yet, throws; the sn is already waiting by then. *)
Sendable == socket # NoSocket /\ phase[socket] # "opening"

Send_as_all_at_once(c, frames) ==
    IF Sendable
    THEN /\ batch' = [batch EXCEPT ![c] = frames]
         /\ asked' = asked \cup {frames[i].sn : i \in DOMAIN frames}
         /\ up' = IF phase[socket] \in {"signing", "signedIn"}
                  THEN [up EXCEPT ![socket] = @ \o frames] ELSE up
    ELSE batch' = [batch EXCEPT ![c] = <<>>] /\ UNCHANGED <<asked, up>>

Send(c, frames) ==
    IF Sendable
    THEN /\ batch' = [batch EXCEPT ![c] = frames]
         /\ asked' = asked \cup {Head(frames).sn}
         /\ up' = IF phase[socket] \in {"signing", "signedIn"}
                  THEN [up EXCEPT ![socket] = Append(@, Head(frames))] ELSE up
    ELSE batch' = [batch EXCEPT ![c] = <<>>] /\ UNCHANGED <<asked, up>>

(* The frames are built, with their ids, and submit runs up to its first   *)
(* await.  The ids are spent even when submit refuses.                     *)
Submit(c, n) ==
    LET ids    == NextIds(n)
        frames == [i \in 1 .. n |-> Frame(ids[i], seq + i)]
    IN  /\ batch[c] = <<>> /\ seq + n <= OrderBound
        /\ requestId' = ids[n] /\ seq' = seq + n
        /\ IF socket # NoSocket /\ connected
           THEN /\ Send(c, frames)
                /\ awaiting' = awaiting \cup {Head(frames).sn}
                /\ overlapped' = (overlapped \/ \E d \in Callers : batch[d] # <<>>)
           ELSE UNCHANGED <<batch, asked, up, awaiting, overlapped>>
        /\ UNCHANGED <<socket, connected, timer, lastForwarded, phase, down, perpl, answer, lateClose>>

(* The promise of an sn is resolved, and the caller's loop goes on before  *)
(* the next event: it stops at the first frame that was not accepted.      *)
Resolve(sn, told) ==
    IF \E c \in Callers : batch[c] # <<>> /\ Head(batch[c]).sn = sn
    THEN LET c    == CHOOSE d \in Callers : batch[d] # <<>> /\ Head(batch[d]).sn = sn
             rest == Tail(batch[c])
         IN  /\ answer' = [answer EXCEPT ![sn] = told]
             /\ IF told = "accepted" /\ rest # <<>>
                THEN /\ Send(c, rest)
                     /\ awaiting' = (awaiting \ {sn}) \cup {Head(rest).sn}
                ELSE /\ batch' = [batch EXCEPT ![c] = <<>>]
                     /\ awaiting' = awaiting \ {sn}
                     /\ UNCHANGED <<asked, up>>
    ELSE awaiting' = awaiting \ {sn} /\ UNCHANGED <<answer, batch, asked, up>>

(* Whose answer an mt 3 is: by cid, if anybody still waits for it.         *)
Settled(cid) == {cid} \cap awaiting

Status(s) ==
    /\ down[s] # <<>> /\ Head(down[s]).mt = "status"
    /\ down' = [down EXCEPT ![s] = Tail(@)]
    /\ LET settled == Settled(Head(down[s]).cid)
           told    == IF Head(down[s]).ok THEN "accepted" ELSE "refused"
       IN  IF settled = {} THEN UNCHANGED <<submitVars, up>>
           ELSE \E sn \in settled : Resolve(sn, told)
    /\ UNCHANGED <<socket, connected, timer, idVars, phase, perpl, lateClose, overlapped>>

TimeoutAnswer_as_refused == "refused"
TimeoutAnswer == "unanswered"

AckTimeout_as_forgets_only(sn) ==
    /\ sn \in awaiting
    /\ awaiting' = awaiting \ {sn}
    /\ UNCHANGED <<socket, connected, timer, idVars, batch, asked, answer, phase, up, down,
                   perpl, lateClose, overlapped>>

(* Eight seconds after a frame was sent.                                   *)
AckTimeout(sn) ==
    /\ sn \in awaiting
    /\ Resolve(sn, TimeoutAnswer)
    /\ UNCHANGED <<socket, connected, timer, idVars, phase, down, perpl, lateClose, overlapped>>

SessionNext ==
    \/ Reconnect
    \/ \E s \in Sockets :
          \/ SignIn(s) \/ Welcome(s) \/ ErrorEvent(s) \/ CloseEvent(s)
          \/ PerplReads(s) \/ Snapshot(s) \/ Status(s)
    \/ \E c \in Callers, n \in BatchSizes : Submit(c, n)
    \/ \E sn \in Orders : AckTimeout(sn)

SessionSpec == SessionInit /\ [][SessionNext]_sessionVars

(* Timers fire.                                                            *)
SessionFairSpec ==
    /\ SessionSpec
    /\ \A sn \in Orders : WF_sessionVars(AckTimeout(sn))

-----------------------------------------------------------------------------
Placement == INSTANCE OrderPlacement WITH
    placed <- perpl.placed, refused <- perpl.refused

(* Over any reconnects, late closes, timeouts and answers out of turn,     *)
(* what submit tells its caller of an order is true of that order, and no  *)
(* order is placed twice (330-337).                                        *)
ImplementsPlacement == Placement!PlacementSpec

(* Every caller of submit is answered, whatever becomes of the socket.     *)
SubmitEnds == \A c \in Callers : batch[c] # <<>> ~> batch[c] = <<>>

(* A frame that comes too late for its request id was given up, or there   *)
(* were two batches under way at a time: with one batch at a time an order *)
(* that is waited for is never refused for its id (107-111, 304-307).      *)
IdsStayAhead ==
    \A s \in Sockets : \A i \in 1 .. Len(up[s]) :
        up[s][i].rq <= perpl.lfr =>
            overlapped \/ up[s][i].sn \notin awaiting

(* A trigger is on its way only behind an entry that was accepted: nothing *)
(* protects a position that does not exist (366).                          *)
TriggersFollowTheEntry ==
    \A c \in Callers : \A i, j \in 1 .. Len(batch[c]) :
        i < j => batch[c][j].sn \notin asked
=============================================================================
